---- MODULE Spec2Model ----
(***************************************************************************)
(* Model of the MIDI editing engine (src/src/midi-engine.js) and of the    *)
(* input domains its dispatch layer admits (src/src/server.js).            *)
(*                                                                         *)
(* Numbers.  JavaScript numbers are modelled as exact rationals.  A tick   *)
(* position is stored as an integer count of 1/TickScale ticks, so that    *)
(* ppq * num * (4 / den) is exact for every denominator of Denominators.   *)
(* A beat position is a pair [n, d] in lowest terms.  Floating-point       *)
(* rounding error is not modelled.                                         *)
(***************************************************************************)
EXTENDS Integers, Sequences, FiniteSets, TLC

VARIABLES
    loaded,     \* the registry: alias -> [midi, filePath, dirty]
    disk,       \* the file system: absolute path -> serialized document
    pending,    \* saveMidi calls suspended at `await writeFile`
    last,       \* outcome of the most recent call, as reported to the caller
    walk        \* a forward measure walk in progress (tickToMeasureBeat / totalMeasures)

vars == <<loaded, disk, pending, last, walk>>

\* ── Bounds of the model ─────────────────────────────────────────────────────

MaxNotes == 1       \* notes per track of a document that started without notes
MaxTune == 2        \* notes per track of a document loaded with notes
MaxChord == 4       \* notes per track of a document that is searched
MaxTracks == 1      \* tracks per document
MaxEvents == 2      \* events per tempo / time-signature list
MaxMeasure == 3     \* largest measure number asked of the time map
MaxWalk == 4        \* measures a stepwise walk may count before the model stops it

\* ── Values ──────────────────────────────────────────────────────────────────

Null == "null"              \* JavaScript null / undefined for a path or alias
None == <<>>                \* an omitted optional number
Some(v) == <<v>>
IsSome(o) == Len(o) = 1
Val(o) == o[1]

Denominators == {2, 4, 8}

RECURSIVE GCD(_, _)
GCD(a, b) == IF b = 0 THEN a ELSE GCD(b, a % b)

LCM(a, b) == (a * b) \div GCD(a, b)

RECURSIVE LCMOf(_)
LCMOf(S) == IF S = {} THEN 1
            ELSE LET x == CHOOSE y \in S : TRUE IN LCM(x, LCMOf(S \ {x}))

\* Number of model units per tick.
TickScale == LCMOf(Denominators)

\* An integer tick count in model units.
Ticks(n) == n * TickScale

\* Math.round of the rational n/d (d > 0): nearest integer, halves toward +Infinity.
Round(n, d) == (2 * n + d) \div (2 * d)

\* The rational n/d in lowest terms (d > 0).
Rat(n, d) == LET g == GCD(IF n < 0 THEN -n ELSE n, d) IN [n |-> n \div g, d |-> d \div g]

DefaultPpq == 480
DefaultBpm == 120
DefaultVelocity == 80

\* ── Helpers of the engine ───────────────────────────────────────────────────

\* tempoAtTick(midi, tick)
RECURSIVE tempoScan(_, _, _, _)
tempoScan(tempos, i, tick, bpm) ==
    IF i > Len(tempos) THEN bpm
    ELSE IF tempos[i].ticks <= tick THEN tempoScan(tempos, i + 1, tick, tempos[i].bpm)
    ELSE bpm

tempoAtTick(midi, tick) ==
    IF Len(midi.tempos) = 0 THEN DefaultBpm
    ELSE tempoScan(midi.tempos, 1, tick, midi.tempos[1].bpm)

\* timeSigAtTick(midi, tick)
RECURSIVE sigScan(_, _, _, _)
sigScan(sigs, i, tick, sig) ==
    IF i > Len(sigs) THEN sig
    ELSE IF sigs[i].ticks <= tick THEN sigScan(sigs, i + 1, tick, sigs[i].timeSignature)
    ELSE sig

timeSigAtTick(midi, tick) ==
    IF Len(midi.timeSignatures) = 0 THEN <<4, 4>>
    ELSE sigScan(midi.timeSignatures, 1, tick, midi.timeSignatures[1].timeSignature)

\* ppq * num * (4 / den), in model units
measureLength(ppq, sig) == (ppq * sig[1] * 4 * TickScale) \div sig[2]

\* ticksPerMeasure(midi, tick), in model units
ticksPerMeasure(midi, tick) == measureLength(midi.ppq, timeSigAtTick(midi, tick))

\* ppq * (4 / den), in model units
ticksPerBeatOf(midi, den) == (midi.ppq * 4 * TickScale) \div den

\* measureToTicks(midi, measure)
RECURSIVE measureWalk(_, _, _, _)
measureWalk(midi, currentTick, currentMeasure, measure) ==
    IF currentMeasure < measure
    THEN measureWalk(midi, currentTick + ticksPerMeasure(midi, currentTick),
                     currentMeasure + 1, measure)
    ELSE currentTick

\* { start: currentTick, end: currentTick + tpm }
measureRange(currentTick, tpm) == [start |-> currentTick, end |-> currentTick + tpm]

measureAt(midi, currentTick) == measureRange(currentTick, ticksPerMeasure(midi, currentTick))

measureToTicks(midi, measure) == measureAt(midi, measureWalk(midi, 0, 1, measure))

\* tickToMeasureBeat(midi, tick).  The loop does not end when a walked measure has
\* ticksPerMeasure <= 0 and does not contain the tick: the operator then yields
\* Diverges instead of a position.
Diverges == [measure |-> 0, beat |-> Rat(0, 1)]

\* { measure, beat: beatOffset + 1 } with beatOffset = (tick - currentTick) / ticksPerBeat
positionIn(measure, offset, ticksPerBeat) ==
    [measure |-> measure, beat |-> Rat(offset + ticksPerBeat, ticksPerBeat)]

RECURSIVE beatWalk(_, _, _, _)
\* Mutant: the walk stops at a measure whose end is the tick (>= for >).
beatStep_Inclusive(midi, currentTick, measure, tick, tpm) ==
    IF currentTick + tpm >= tick
    THEN positionIn(measure, tick - currentTick,
                    ticksPerBeatOf(midi, timeSigAtTick(midi, currentTick)[2]))
    ELSE IF tpm <= 0 THEN Diverges
    ELSE beatWalk(midi, currentTick + tpm, measure + 1, tick)

beatStep(midi, currentTick, measure, tick, tpm) ==
    IF currentTick + tpm > tick
    THEN positionIn(measure, tick - currentTick,
                    ticksPerBeatOf(midi, timeSigAtTick(midi, currentTick)[2]))
    ELSE IF tpm <= 0 THEN Diverges
    ELSE beatWalk(midi, currentTick + tpm, measure + 1, tick)

beatWalk(midi, currentTick, measure, tick) ==
    beatStep(midi, currentTick, measure, tick, ticksPerMeasure(midi, currentTick))

tickToMeasureBeat(midi, tick) == beatWalk(midi, 0, 1, tick)

\* totalMeasures(midi): 0 without notes, else the measures walked to cover the last
\* note end; -1 stands for a walk that does not end (ticksPerMeasure <= 0).
MaxOf(S) == IF S = {} THEN 0 ELSE CHOOSE x \in S : \A y \in S : y <= x

Range(seq) == {seq[i] : i \in DOMAIN seq}

lastTickOf(midi) ==
    MaxOf(UNION {{n.ticks + n.durationTicks : n \in Range(midi.tracks[t].notes)} :
                   t \in DOMAIN midi.tracks})

RECURSIVE countWalk(_, _, _, _)
countStep(midi, currentTick, measures, lastTick, tpm) ==
    IF tpm <= 0 THEN -1 ELSE countWalk(midi, currentTick + tpm, measures + 1, lastTick)

countWalk(midi, currentTick, measures, lastTick) ==
    IF currentTick < lastTick
    THEN countStep(midi, currentTick, measures, lastTick,
                   ticksPerMeasure(midi, currentTick))
    ELSE measures

measuresToCover(midi, lastTick) ==
    IF lastTick = 0 THEN 0 ELSE countWalk(midi, 0, 0, lastTick)

totalMeasures(midi) == measuresToCover(midi, lastTickOf(midi))

\* ── Pitch names ─────────────────────────────────────────────────────────────
\* A name is a sequence of one-character strings, e.g. <<"B", "b", "5">>.

Digits == [c \in {"0", "1", "2", "3", "4", "5", "6", "7", "8", "9"} |->
             CASE c = "0" -> 0 [] c = "1" -> 1 [] c = "2" -> 2 [] c = "3" -> 3
               [] c = "4" -> 4 [] c = "5" -> 5 [] c = "6" -> 6 [] c = "7" -> 7
               [] c = "8" -> 8 [] c = "9" -> 9]

\* { C: 0, D: 2, E: 4, F: 5, G: 7, A: 9, B: 11 }[letter.toUpperCase()]
LetterBase(c) ==
    CASE c \in {"C", "c"} -> 0 [] c \in {"D", "d"} -> 2 [] c \in {"E", "e"} -> 4
      [] c \in {"F", "f"} -> 5 [] c \in {"G", "g"} -> 7 [] c \in {"A", "a"} -> 9
      [] c \in {"B", "b"} -> 11

Letters == {"A", "B", "C", "D", "E", "F", "G", "a", "b", "c", "d", "e", "f", "g"}

\* Length of the run of character ch at the head of s.
RECURSIVE RunLen(_, _)
RunLen(s, ch) == IF s # <<>> /\ Head(s) = ch THEN 1 + RunLen(Tail(s), ch) ELSE 0

RECURSIVE Drop(_, _)
Drop(s, k) == IF k = 0 THEN s ELSE Drop(Tail(s), k - 1)

RECURSIVE ParseDigits(_, _)
ParseDigits(s, acc) ==
    IF s = <<>> THEN acc ELSE ParseDigits(Tail(s), 10 * acc + Digits[Head(s)])

AllDigits(s) == s # <<>> /\ \A i \in DOMAIN s : s[i] \in DOMAIN Digits

\* The octave group (-?\d+) of the name: its value, or matched = FALSE.
digitsGroup(letter, acc, neg, digits) ==
    IF ~AllDigits(digits) THEN [matched |-> FALSE]
    ELSE [matched |-> TRUE, letter |-> letter, acc |-> acc,
          octave |-> IF neg THEN -ParseDigits(digits, 0) ELSE ParseDigits(digits, 0)]

octaveGroup(letter, acc, oct) ==
    IF oct # <<>> /\ Head(oct) = "-" THEN digitsGroup(letter, acc, TRUE, Tail(oct))
    ELSE digitsGroup(letter, acc, FALSE, oct)

\* The accidental group (#{0,2}|b{0,2}) at the head of rest.
accidentalGroup(letter, rest, sharps, flats) ==
    IF sharps > 2 \/ (sharps = 0 /\ flats > 2) THEN [matched |-> FALSE]
    ELSE IF sharps > 0 THEN octaveGroup(letter, sharps, Drop(rest, sharps))
    ELSE octaveGroup(letter, -flats, Drop(rest, flats))

\* The regular expression /^([A-Ga-g])(#{0,2}|b{0,2})(-?\d+)$/: the match groups,
\* or matched = FALSE.
MatchNoteName(name) ==
    IF name = <<>> \/ Head(name) \notin Letters THEN [matched |-> FALSE]
    ELSE accidentalGroup(Head(name), Tail(name), RunLen(Tail(name), "#"),
                         RunLen(Tail(name), "b"))

\* Mutant: 128 is taken for a pitch.
pitchOf_UpTo128(midi) == [ok |-> midi >= 0 /\ midi <= 128, midi |-> midi]

\* (octave + 1) * 12 + base + acc, refused outside 0..127
pitchOf(midi) == [ok |-> midi >= 0 /\ midi <= 127, midi |-> midi]

pitchOfMatch(match) ==
    IF ~match.matched THEN [ok |-> FALSE, midi |-> 0]
    ELSE pitchOf((match.octave + 1) * 12 + LetterBase(match.letter) + match.acc)

\* noteNameToMidi(name): [ok |-> TRUE, midi |-> n], or ok = FALSE where it throws.
noteNameToMidi(name) == pitchOfMatch(MatchNoteName(name))

\* ── Sequences ───────────────────────────────────────────────────────────────

\* Index before which an element with these ticks goes to stay behind every
\* element whose ticks are not larger.
RECURSIVE InsertPos(_, _, _)
InsertPos(seq, ticks, i) ==
    IF i > Len(seq) \/ seq[i].ticks > ticks THEN i ELSE InsertPos(seq, ticks, i + 1)

InsertAt(seq, i, e) == SubSeq(seq, 1, i - 1) \o <<e>> \o SubSeq(seq, i, Len(seq))

\* array.sort((a, b) => a.ticks - b.ticks): a stable sort by ticks.
InsertByTicks(seq, e) == InsertAt(seq, InsertPos(seq, e.ticks, 1), e)

RECURSIVE SortByTicks(_)
SortByTicks(seq) ==
    IF seq = <<>> THEN <<>>
    ELSE InsertByTicks(SortByTicks(SubSeq(seq, 1, Len(seq) - 1)), seq[Len(seq)])

\* track.addNote(props) of the MIDI library: the note goes behind the notes that do
\* not start later.
AddNote(notes, note) == InsertByTicks(notes, note)

\* ── Paths ───────────────────────────────────────────────────────────────────

\* Relative path names the callers use, and resolve(path) of node:path against the
\* working directory /cwd.
RelPaths == {"song.mid", "out.mid"}
resolve(path) ==
    CASE path = "song.mid" -> "/cwd/song.mid"
      [] path = "out.mid" -> "/cwd/out.mid"
      [] OTHER -> path
AbsPaths == {resolve(p) : p \in RelPaths}

\* ── Documents ───────────────────────────────────────────────────────────────
\* midi: [ppq, tempos, timeSignatures, tracks]; a tempo event is [ticks, bpm], a
\* time-signature event [ticks, timeSignature], a track [name, instrument, notes],
\* a note [midi, ticks, durationTicks, velocity].  velocity holds v for the stored
\* value v / 127.  The header's display name and a track's channel are left out:
\* no operation reads them.

\* new Midi()
EmptyMidi == [ppq |-> DefaultPpq, tempos |-> <<>>, timeSignatures |-> <<>>, tracks |-> <<>>]

HasTrack(midi, trackIndex) == trackIndex + 1 \in DOMAIN midi.tracks

Reply(err, entry, ret) == [err |-> err, entry |-> entry, ret |-> ret]

\* ── addNotes ────────────────────────────────────────────────────────────────
\* An input note is [measure, beat, noteName, velocity, durationBeats] with beat and
\* durationBeats rationals [n, d] and velocity optional.

\* The note built from one input, or ok = FALSE where noteNameToMidi throws:
\* ticks = measureStart + Math.round((beat - 1) * ticksPerBeat),
\* durationTicks = Math.round(durationBeats * ticksPerBeat).
noteWith(n, measureStart, ticksPerBeat, parsed) ==
    [ok |-> parsed.ok,
     note |-> [midi |-> parsed.midi,
               ticks |-> measureStart
                         + Ticks(Round((n.beat.n - n.beat.d) * ticksPerBeat,
                                       n.beat.d * TickScale)),
               durationTicks |-> Ticks(Round(n.durationBeats.n * ticksPerBeat,
                                             n.durationBeats.d * TickScale)),
               velocity |-> IF IsSome(n.velocity) THEN Val(n.velocity)
                            ELSE DefaultVelocity]]

noteAt(midi, n, measureStart) ==
    noteWith(n, measureStart,
             ticksPerBeatOf(midi, timeSigAtTick(midi, measureStart)[2]),
             noteNameToMidi(n.noteName))

noteFromInput(midi, n) == noteAt(midi, n, measureToTicks(midi, n.measure).start)

\* for (const n of notes) { ... track.addNote(...) }: the track's notes when the loop
\* ends or throws.
RECURSIVE addLoop(_, _, _, _)
addStep(midi, trackNotes, notes, i, r) ==
    IF ~r.ok THEN [ok |-> FALSE, notes |-> trackNotes]
    ELSE addLoop(midi, AddNote(trackNotes, r.note), notes, i + 1)

addLoop(midi, trackNotes, notes, i) ==
    IF i > Len(notes) THEN [ok |-> TRUE, notes |-> trackNotes]
    ELSE addStep(midi, trackNotes, notes, i, noteFromInput(midi, notes[i]))

WithNotes(entry, trackIndex, notes) ==
    [entry EXCEPT !.midi.tracks[trackIndex + 1].notes = notes]

Dirty(entry) == [entry EXCEPT !.dirty = TRUE]

addReply(entry, trackIndex, r) ==
    IF ~r.ok THEN Reply("InvalidNote", WithNotes(entry, trackIndex, r.notes), <<>>)
    ELSE Reply("none", Dirty(WithNotes(entry, trackIndex, r.notes)), <<Len(r.notes)>>)

addNotesTo(entry, trackIndex, notes) ==
    IF ~HasTrack(entry.midi, trackIndex) THEN Reply("TrackNotFound", entry, <<>>)
    ELSE addReply(entry, trackIndex,
                  addLoop(entry.midi, entry.midi.tracks[trackIndex + 1].notes, notes, 1))

\* ── deleteNotes ─────────────────────────────────────────────────────────────

\* Mutant: a note sounding in the range is removed, wherever it starts.
keptNotes_Sounding(notes, start, end, pitchMin, pitchMax) ==
    LET keep(note) ==
            \/ note.ticks + note.durationTicks <= start \/ note.ticks >= end
            \/ (IsSome(pitchMin) /\ note.midi < Val(pitchMin))
            \/ (IsSome(pitchMax) /\ note.midi > Val(pitchMax))
    IN SelectSeq(notes, keep)

\* track.notes.filter(...)
keptNotes(notes, start, end, pitchMin, pitchMax) ==
    LET keep(note) ==
            \/ note.ticks < start \/ note.ticks >= end
            \/ (IsSome(pitchMin) /\ note.midi < Val(pitchMin))
            \/ (IsSome(pitchMax) /\ note.midi > Val(pitchMax))
    IN SelectSeq(notes, keep)

\* Mutant: the entry is marked dirty only when a note was removed.
deleteReply_DirtyIfRemoved(entry, trackIndex, before, after) ==
    Reply("none",
          [WithNotes(entry, trackIndex, after)
             EXCEPT !.dirty = entry.dirty \/ Len(after) < Len(before)],
          <<Len(before) - Len(after), Len(after)>>)

deleteReply(entry, trackIndex, before, after) ==
    Reply("none", Dirty(WithNotes(entry, trackIndex, after)),
          <<Len(before) - Len(after), Len(after)>>)

deleteNotesFrom(entry, trackIndex, measureStart, measureEnd, pitchMin, pitchMax) ==
    IF ~HasTrack(entry.midi, trackIndex) THEN Reply("TrackNotFound", entry, <<>>)
    ELSE deleteReply(entry, trackIndex, entry.midi.tracks[trackIndex + 1].notes,
                     keptNotes(entry.midi.tracks[trackIndex + 1].notes,
                               measureToTicks(entry.midi, measureStart).start,
                               measureToTicks(entry.midi, measureEnd).end,
                               pitchMin, pitchMax))

\* ── setTempo, setTimeSignature ──────────────────────────────────────────────

\* events.filter(e => e.ticks !== atTick)
eventsNotAt(events, atTick) ==
    LET other(e) == e.ticks # atTick IN SelectSeq(events, other)

\* Mutant: push and sort without the filter.
withEvent_NoFilter(events, event) == SortByTicks(Append(events, event))

\* filter, push, sort
withEvent(events, event) == SortByTicks(Append(eventsNotAt(events, event.ticks), event))

setTempoOn(entry, bpm, atTick) ==
    Reply("none",
          Dirty([entry EXCEPT !.midi.tempos = withEvent(entry.midi.tempos,
                                                         [ticks |-> atTick, bpm |-> bpm])]),
          <<>>)

setTimeSignatureOn(entry, numerator, denominator, atTick) ==
    Reply("none",
          Dirty([entry EXCEPT
                   !.midi.timeSignatures =
                       withEvent(entry.midi.timeSignatures,
                                 [ticks |-> atTick,
                                  timeSignature |-> <<numerator, denominator>>])]),
          <<>>)

\* ── addTrack, setTrackInstrument ────────────────────────────────────────────

\* `Track ${midi.tracks.length - 1}`
DefaultTrackName(index) == <<"Track", index>>

\* midi.addTrack() with the name and instrument given
newTrack(index, name, instrument) ==
    [name |-> IF name # Null THEN <<name>> ELSE DefaultTrackName(index),
     instrument |-> IF IsSome(instrument) THEN Val(instrument) ELSE 0,
     notes |-> <<>>]

addTrackTo(entry, name, instrument) ==
    Reply("none",
          Dirty([entry EXCEPT
                   !.midi.tracks = Append(entry.midi.tracks,
                                          newTrack(Len(entry.midi.tracks), name, instrument))]),
          <<Len(entry.midi.tracks)>>)

setTrackInstrumentOn(entry, trackIndex, instrument) ==
    IF ~HasTrack(entry.midi, trackIndex) THEN Reply("TrackNotFound", entry, <<>>)
    ELSE Reply("none",
               Dirty([entry EXCEPT !.midi.tracks[trackIndex + 1].instrument = instrument]),
               <<trackIndex>>)

\* ── transposeNotes, quantizeNotes ───────────────────────────────────────────
\* A measure bound is optional; an omitted measureEnd leaves end = Infinity.

rangeStart(midi, measureStart) ==
    IF IsSome(measureStart) THEN measureToTicks(midi, Val(measureStart)).start ELSE 0

rangeEnd(midi, measureEnd) ==
    IF IsSome(measureEnd) THEN Some(measureToTicks(midi, Val(measureEnd)).end) ELSE None

\* note.ticks >= start && note.ticks < end
InRange(note, start, end) == note.ticks >= start /\ (IsSome(end) => note.ticks < Val(end))

\* Mutant: the upper limit of the clamp is 120.
Clamp_At120(pitch) == IF pitch > 120 THEN 120 ELSE IF pitch < 0 THEN 0 ELSE pitch

\* Math.max(0, Math.min(127, pitch))
Clamp(pitch) == IF pitch > 127 THEN 127 ELSE IF pitch < 0 THEN 0 ELSE pitch

transposed(note, semitones, start, end) ==
    IF InRange(note, start, end) THEN [note EXCEPT !.midi = Clamp(note.midi + semitones)]
    ELSE note

\* The loop of transposeNotes over the track's notes.
RECURSIVE transposeLoop(_, _, _, _)
transposeLoop(notes, semitones, start, end) ==
    IF notes = <<>> THEN <<>>
    ELSE <<transposed(Head(notes), semitones, start, end)>>
         \o transposeLoop(Tail(notes), semitones, start, end)

CountInRange(notes, start, end) ==
    Cardinality({i \in DOMAIN notes : InRange(notes[i], start, end)})

transposeIn(entry, trackIndex, notes, semitones, start, end) ==
    Reply("none",
          Dirty(WithNotes(entry, trackIndex, transposeLoop(notes, semitones, start, end))),
          <<CountInRange(notes, start, end)>>)

transposeNotesOn(entry, trackIndex, semitones, measureStart, measureEnd) ==
    IF ~HasTrack(entry.midi, trackIndex) THEN Reply("TrackNotFound", entry, <<>>)
    ELSE transposeIn(entry, trackIndex, entry.midi.tracks[trackIndex + 1].notes, semitones,
                     rangeStart(entry.midi, measureStart), rangeEnd(entry.midi, measureEnd))

\* Math.round(ppq * gridBeats), gridBeats a rational [n, d]
gridTicksOf(midi, gridBeats) == Round(midi.ppq * gridBeats.n, gridBeats.d)

\* Mutant: the grid line after the one at or below the note.
nearestOnGrid_NextLine(ticks, gridTicks) ==
    Ticks(((ticks \div (TickScale * gridTicks)) + 1) * gridTicks)

\* Mutant: a note halfway between two grid lines goes to the lower one.
nearestOnGrid_TiesDown(ticks, gridTicks) ==
    Ticks(((2 * ticks + TickScale * gridTicks - 1) \div (2 * TickScale * gridTicks))
          * gridTicks)

\* Math.round(note.ticks / gridTicks) * gridTicks, in model units
nearestOnGrid(ticks, gridTicks) == Ticks(Round(ticks, TickScale * gridTicks) * gridTicks)

quantized(note, gridTicks, start, end) ==
    IF InRange(note, start, end)
    THEN [note EXCEPT !.ticks = nearestOnGrid(note.ticks, gridTicks)]
    ELSE note

\* The loop of quantizeNotes over the track's notes.
RECURSIVE quantizeLoop(_, _, _, _)
quantizeLoop(notes, gridTicks, start, end) ==
    IF notes = <<>> THEN <<>>
    ELSE <<quantized(Head(notes), gridTicks, start, end)>>
         \o quantizeLoop(Tail(notes), gridTicks, start, end)

\* Mutant: entry.dirty = true moved ahead of the grid check.
quantizeIn_DirtyFirst(entry, trackIndex, notes, gridTicks, start, end) ==
    IF gridTicks <= 0 THEN Reply("InvalidGrid", Dirty(entry), <<>>)
    ELSE Reply("none",
               Dirty(WithNotes(entry, trackIndex,
                               quantizeLoop(notes, gridTicks, start, end))),
               <<CountInRange(notes, start, end)>>)

quantizeIn(entry, trackIndex, notes, gridTicks, start, end) ==
    IF gridTicks <= 0 THEN Reply("InvalidGrid", entry, <<>>)
    ELSE Reply("none",
               Dirty(WithNotes(entry, trackIndex,
                               quantizeLoop(notes, gridTicks, start, end))),
               <<CountInRange(notes, start, end)>>)

quantizeNotesOn(entry, trackIndex, gridBeats, measureStart, measureEnd) ==
    IF ~HasTrack(entry.midi, trackIndex) THEN Reply("TrackNotFound", entry, <<>>)
    ELSE quantizeIn(entry, trackIndex, entry.midi.tracks[trackIndex + 1].notes,
                    gridTicksOf(entry.midi, gridBeats),
                    rangeStart(entry.midi, measureStart), rangeEnd(entry.midi, measureEnd))

\* ── createMidi ──────────────────────────────────────────────────────────────
\* opts: bpm, numerator and denominator optional numbers, filePath a path or Null.

\* x || fallback for an optional number
OrElse(x, fallback) == IF IsSome(x) /\ Val(x) # 0 THEN Val(x) ELSE fallback

createdEntry(bpm, numerator, denominator, filePath) ==
    [midi |-> [EmptyMidi EXCEPT
                 !.tempos = <<[ticks |-> 0, bpm |-> OrElse(bpm, DefaultBpm)]>>,
                 !.timeSignatures =
                     <<[ticks |-> 0,
                        timeSignature |-> <<OrElse(numerator, 4), OrElse(denominator, 4)>>]>>],
     filePath |-> IF filePath # Null THEN resolve(filePath) ELSE Null,
     dirty |-> TRUE]

\* ── The registry ────────────────────────────────────────────────────────────

\* Mutant: a key that has a value keeps it.
Put_IfAbsent(f, k, v) == [x \in DOMAIN f \cup {k} |-> IF x \in DOMAIN f THEN f[x] ELSE v]

\* loaded.set(k, v), loaded.delete(k), new Map()
Put(f, k, v) == [x \in DOMAIN f \cup {k} |-> IF x = k THEN v ELSE f[x]]
Remove(f, k) == [x \in DOMAIN f \ {k} |-> f[x]]
Empty == [x \in {} |-> Null]

\* requireLoaded(alias) succeeds
IsLoaded(alias) == alias \in DOMAIN loaded

\* A call: the operation, its alias, its numeric arguments (each a tuple: <<x>>, a
\* rational <<n, d>>, <<>> if omitted), its path argument and its batch of notes.
\* text is a textual filter of a query.  With err, ret and out filled in it is the
\* call's outcome: the error ("none" for a result), the counts of the result and
\* the list a query returns.
Request(op, alias, args, path, notes) ==
    [op |-> op, alias |-> alias, args |-> args, path |-> path, notes |-> notes,
     text |-> <<>>, err |-> "none", ret |-> <<>>, out |-> <<>>]

Outcome(request, err, ret) == [request EXCEPT !.err = err, !.ret = ret]

NoWalk == [pc |-> "idle"]

\* A save of this alias is suspended in writeFile.
Busy(alias) == \E p \in pending : p.alias = alias

\* A synchronous operation on an entry: requireLoaded(alias) throws, or the
\* operation's reply decides the entry and the outcome.
Call(request, reply) ==
    /\ IF IsLoaded(request.alias)
       THEN /\ loaded' = [loaded EXCEPT ![request.alias] = reply.entry]
            /\ last' = Outcome(request, reply.err, reply.ret)
       ELSE /\ last' = Outcome(request, "NotFound", <<>>)
            /\ UNCHANGED loaded
    /\ UNCHANGED <<disk, pending, walk>>

TrackLen(alias, trackIndex) ==
    IF IsLoaded(alias) /\ HasTrack(loaded[alias].midi, trackIndex)
    THEN Len(loaded[alias].midi.tracks[trackIndex + 1].notes) ELSE 0

addNotes(alias, trackIndex, notes) ==
    Call(Request("addNotes", alias, <<<<trackIndex>>>>, Null, notes),
            addNotesTo(loaded[alias], trackIndex, notes))

deleteNotes(alias, trackIndex, measureStart, measureEnd, pitchMin, pitchMax) ==
    Call(Request("deleteNotes", alias,
                 <<<<trackIndex>>, <<measureStart>>, <<measureEnd>>, pitchMin, pitchMax>>,
                 Null, <<>>),
         deleteNotesFrom(loaded[alias], trackIndex, measureStart, measureEnd,
                         pitchMin, pitchMax))

HasEventAt(events, tick) == \E i \in DOMAIN events : events[i].ticks = tick

setTempo(alias, bpm, atTick) ==
    /\ IsLoaded(alias) =>
         \/ Len(loaded[alias].midi.tempos) < MaxEvents
         \/ HasEventAt(loaded[alias].midi.tempos, Ticks(atTick))
    /\ Call(Request("setTempo", alias, <<<<bpm>>, <<atTick>>>>, Null, <<>>),
            setTempoOn(loaded[alias], bpm, Ticks(atTick)))

setTimeSignature(alias, numerator, denominator, atTick) ==
    /\ IsLoaded(alias) =>
         \/ Len(loaded[alias].midi.timeSignatures) < MaxEvents
         \/ HasEventAt(loaded[alias].midi.timeSignatures, Ticks(atTick))
    /\ Call(Request("setTimeSignature", alias,
                    <<<<numerator>>, <<denominator>>, <<atTick>>>>, Null, <<>>),
            setTimeSignatureOn(loaded[alias], numerator, denominator, Ticks(atTick)))

addTrack(alias, name, instrument) ==
    /\ IsLoaded(alias) => Len(loaded[alias].midi.tracks) < MaxTracks
    /\ Call(Request("addTrack", alias, <<instrument>>, Null, <<>>),
            addTrackTo(loaded[alias], name, instrument))

setTrackInstrument(alias, trackIndex, instrument) ==
    Call(Request("setTrackInstrument", alias, <<<<trackIndex>>, <<instrument>>>>,
                 Null, <<>>),
         setTrackInstrumentOn(loaded[alias], trackIndex, instrument))

transposeNotes(alias, trackIndex, semitones, measureStart, measureEnd) ==
    Call(Request("transposeNotes", alias,
                 <<<<trackIndex>>, <<semitones>>, measureStart, measureEnd>>, Null, <<>>),
         transposeNotesOn(loaded[alias], trackIndex, semitones, measureStart, measureEnd))

quantizeNotes(alias, trackIndex, gridBeats, measureStart, measureEnd) ==
    Call(Request("quantizeNotes", alias,
                 <<<<trackIndex>>, <<gridBeats.n, gridBeats.d>>, measureStart, measureEnd>>,
                 Null, <<>>),
         quantizeNotesOn(loaded[alias], trackIndex, gridBeats, measureStart, measureEnd))

\* What a call reports after totalMeasures(midi) in its return value: the walk of
\* totalMeasures does not end when it meets ticksPerMeasure <= 0.
Returned(midi) == IF totalMeasures(midi) < 0 THEN "diverges" ELSE "none"

createMidi(alias, bpm, numerator, denominator, filePath) ==
    /\ loaded' = Put(loaded, alias, createdEntry(bpm, numerator, denominator, filePath))
    /\ last' = Outcome(Request("createMidi", alias, <<bpm, numerator, denominator>>,
                               filePath, <<>>),
                       "none", <<0>>)
    /\ UNCHANGED <<disk, pending, walk>>

\* loaded.set(alias, { midi, filePath: absPath, dirty: false }) and the return
loadedFrom(request, absPath, midi) ==
    /\ loaded' = Put(loaded, request.alias,
                     [midi |-> midi, filePath |-> absPath, dirty |-> FALSE])
    /\ last' = Outcome(request, Returned(midi), <<Len(midi.tracks)>>)
    /\ UNCHANGED <<disk, pending, walk>>

loadMidiAt(request, absPath) ==
    IF absPath \notin DOMAIN disk
    THEN /\ last' = Outcome(request, "IOFailure", <<>>)
         /\ UNCHANGED <<loaded, disk, pending, walk>>
    ELSE loadedFrom(request, absPath, disk[absPath])

\* readFile fails for a path that names no file; parsing is the codec's.
loadMidi(filePath, alias) ==
    loadMidiAt(Request("loadMidi", IF alias # Null THEN alias ELSE resolve(filePath),
                       <<>>, filePath, <<>>),
               resolve(filePath))

saveMidiTo(request, entry, target) ==
    IF target = Null
    THEN /\ last' = Outcome(request, "NoPath", <<>>)
         /\ UNCHANGED <<loaded, disk, pending, walk>>
    ELSE /\ pending' = pending \cup
                         {[alias |-> request.alias, target |-> target, buffer |-> entry.midi]}
         /\ last' = Outcome(request, "awaiting", <<>>)
         /\ UNCHANGED <<loaded, disk, walk>>

\* saveMidi up to `await writeFile(target, buffer)`.
saveMidi(alias, outputPath) ==
    IF ~IsLoaded(alias)
    THEN /\ last' = Outcome(Request("saveMidi", alias, <<>>, outputPath, <<>>),
                            "NotFound", <<>>)
         /\ UNCHANGED <<loaded, disk, pending, walk>>
    ELSE saveMidiTo(Request("saveMidi", alias, <<>>, outputPath, <<>>), loaded[alias],
                    IF outputPath # Null THEN resolve(outputPath)
                    ELSE loaded[alias].filePath)

\* Mutant: the resumed save clears dirty but keeps the old stored path.
saveMidiResume_KeepsPath(p) ==
    /\ p \in pending
    /\ IsLoaded(p.alias)
    /\ pending' = pending \ {p}
    /\ disk' = Put(disk, p.target, p.buffer)
    /\ loaded' = [loaded EXCEPT ![p.alias].dirty = FALSE]
    /\ last' = Outcome(Request("saveMidi", p.alias, <<>>, p.target, <<>>),
                       Returned(loaded[p.alias].midi), <<Len(loaded[p.alias].midi.tracks)>>)
    /\ UNCHANGED walk

\* writeFile succeeded and saveMidi resumes: entry.filePath = target; entry.dirty = false.
\* The entry is the one saveMidi read from the registry; under the single-writer
\* discipline the alias still names it.
saveMidiResume(p) ==
    /\ p \in pending
    /\ IsLoaded(p.alias)
    /\ pending' = pending \ {p}
    /\ disk' = Put(disk, p.target, p.buffer)
    /\ loaded' = [loaded EXCEPT ![p.alias].filePath = p.target, ![p.alias].dirty = FALSE]
    /\ last' = Outcome(Request("saveMidi", p.alias, <<>>, p.target, <<>>),
                       Returned(loaded[p.alias].midi), <<Len(loaded[p.alias].midi.tracks)>>)
    /\ UNCHANGED walk

\* writeFile failed: saveMidi throws at the await.
saveMidiWriteFails(p) ==
    /\ p \in pending
    /\ pending' = pending \ {p}
    /\ last' = Outcome(Request("saveMidi", p.alias, <<>>, p.target, <<>>), "IOFailure", <<>>)
    /\ UNCHANGED <<loaded, disk, walk>>

unloadMidi(alias) ==
    IF ~IsLoaded(alias)
    THEN /\ last' = Outcome(Request("unloadMidi", alias, <<>>, Null, <<>>), "NotFound", <<>>)
         /\ UNCHANGED <<loaded, disk, pending, walk>>
    ELSE /\ loaded' = Remove(loaded, alias)
         /\ last' = Outcome(Request("unloadMidi", alias, <<>>, Null, <<>>), "none",
                            <<IF loaded[alias].dirty THEN 1 ELSE 0>>)
         /\ UNCHANGED <<disk, pending, walk>>

\* ── The forward walks, one loop iteration per step ──────────────────────────
\* walk holds the position of the running handler inside the loop of totalMeasures
\* or tickToMeasureBeat.  JavaScript runs the loop to its end before any other
\* call starts.

Idle == walk.pc = "idle"

\* getMidiInfo(alias) up to the loop of totalMeasures(midi).
getMidiInfoOf(request, lastTick) ==
    IF lastTick = 0
    THEN /\ last' = Outcome(request, "none", <<0>>)
         /\ UNCHANGED <<loaded, disk, pending, walk>>
    ELSE /\ walk' = [pc |-> "totalMeasures", request |-> request, lastTick |-> lastTick,
                     currentTick |-> 0, measures |-> 0]
         /\ last' = Outcome(request, "running", <<>>)
         /\ UNCHANGED <<loaded, disk, pending>>

getMidiInfo(alias) ==
    IF ~IsLoaded(alias)
    THEN /\ last' = Outcome(Request("getMidiInfo", alias, <<>>, Null, <<>>), "NotFound", <<>>)
         /\ UNCHANGED <<loaded, disk, pending, walk>>
    ELSE getMidiInfoOf(Request("getMidiInfo", alias, <<>>, Null, <<>>),
                       lastTickOf(loaded[alias].midi))

\* while (currentTick < lastTick) { currentTick += tpm; measures++ }; return measures
totalMeasuresStep ==
    /\ walk.pc = "totalMeasures"
    /\ IF walk.currentTick < walk.lastTick
       THEN /\ walk.measures < MaxWalk
            /\ walk' = [walk EXCEPT
                          !.currentTick = @ + ticksPerMeasure(loaded[walk.request.alias].midi,
                                                              walk.currentTick),
                          !.measures = @ + 1]
            /\ UNCHANGED last
       ELSE /\ walk' = NoWalk
            /\ last' = Outcome(walk.request, "none", <<walk.measures>>)
    /\ UNCHANGED <<loaded, disk, pending>>

\* The ticks of the notes searchNotes scans without filters, track by track.
RECURSIVE ticksToScan(_, _)
ticksToScan(tracks, t) ==
    IF t > Len(tracks) THEN <<>>
    ELSE [i \in 1..Len(tracks[t].notes) |-> tracks[t].notes[i].ticks]
         \o ticksToScan(tracks, t + 1)

\* searchNotes(alias) up to the loop of the first tickToMeasureBeat(midi, note.ticks).
\* The result list is kept as its count.
searchNotesOf(request, todo) ==
    IF todo = <<>>
    THEN /\ last' = Outcome(request, "none", <<0>>)
         /\ UNCHANGED <<loaded, disk, pending, walk>>
    ELSE /\ walk' = [pc |-> "tickToMeasureBeat", request |-> request, todo |-> todo,
                     currentTick |-> 0, measure |-> 1]
         /\ last' = Outcome(request, "running", <<>>)
         /\ UNCHANGED <<loaded, disk, pending>>

searchNotes(alias) ==
    IF ~IsLoaded(alias)
    THEN /\ last' = Outcome(Request("searchNotes", alias, <<>>, Null, <<>>), "NotFound", <<>>)
         /\ UNCHANGED <<loaded, disk, pending, walk>>
    ELSE searchNotesOf(Request("searchNotes", alias, <<>>, Null, <<>>),
                       ticksToScan(loaded[alias].midi.tracks, 1))

\* One iteration of while (true) in tickToMeasureBeat for the note at the head of
\* todo; on its return the handler goes on to the next note or returns the count.
tickToMeasureBeatStep ==
    /\ walk.pc = "tickToMeasureBeat"
    /\ IF walk.currentTick + ticksPerMeasure(loaded[walk.request.alias].midi, walk.currentTick)
            > Head(walk.todo)
       THEN IF Len(walk.todo) = 1
            THEN /\ walk' = NoWalk
                 /\ last' = Outcome(walk.request, "none",
                                    <<Len(ticksToScan(loaded[walk.request.alias].midi.tracks, 1))>>)
            ELSE /\ walk' = [walk EXCEPT !.todo = Tail(@), !.currentTick = 0, !.measure = 1]
                 /\ UNCHANGED last
       ELSE /\ walk.measure < MaxWalk
            /\ walk' = [walk EXCEPT
                          !.currentTick = @ + ticksPerMeasure(loaded[walk.request.alias].midi,
                                                              walk.currentTick),
                          !.measure = @ + 1]
            /\ UNCHANGED last
    /\ UNCHANGED <<loaded, disk, pending>>

\* ── searchNotes ─────────────────────────────────────────────────────────────
\* Text is a sequence of one-character strings.  opts is [pitchMin, pitchMax,
\* noteName, trackIndex, measureStart, measureEnd]: optional numbers, and a text
\* that is <<>> when the filter is omitted or empty.

SearchLimit == 200

NOTE_NAMES == << <<"C">>, <<"C", "#">>, <<"D">>, <<"D", "#">>, <<"E">>, <<"F">>,
                 <<"F", "#">>, <<"G">>, <<"G", "#">>, <<"A">>, <<"A", "#">>, <<"B">> >>

DigitChars == <<"0", "1", "2", "3", "4", "5", "6", "7", "8", "9">>

\* String(n) for an integer n >= -9
RECURSIVE NumberText(_)
NumberText(n) ==
    IF n < 0 THEN <<"-">> \o NumberText(-n)
    ELSE IF n < 10 THEN <<DigitChars[n + 1]>>
    ELSE NumberText(n \div 10) \o <<DigitChars[(n % 10) + 1]>>

\* `${NOTE_NAMES[midiNum % 12]}${Math.floor(midiNum / 12) - 1}`
midiToNoteName(midiNum) == NOTE_NAMES[(midiNum % 12) + 1] \o NumberText((midiNum \div 12) - 1)

\* Index of the first digit of the text from i on, Len + 1 without one.
RECURSIVE FirstDigit(_, _)
FirstDigit(text, i) ==
    IF i > Len(text) \/ text[i] \in DOMAIN Digits THEN i ELSE FirstDigit(text, i + 1)

\* Index of the first non-digit of the text from i on, Len + 1 without one.
RECURSIVE FirstNonDigit(_, _)
FirstNonDigit(text, i) ==
    IF i > Len(text) \/ text[i] \notin DOMAIN Digits THEN i ELSE FirstNonDigit(text, i + 1)

cutRun(text, from) ==
    SubSeq(text, 1, from - 1) \o SubSeq(text, FirstNonDigit(text, from), Len(text))

\* text.replace(/\d+/, ''): the first run of digits removed
withoutDigits(text) == cutRun(text, FirstDigit(text, 1))

UpperChar(c) ==
    CASE c = "a" -> "A" [] c = "b" -> "B" [] c = "c" -> "C" [] c = "d" -> "D"
      [] c = "e" -> "E" [] c = "f" -> "F" [] c = "g" -> "G" [] OTHER -> c

\* text.toUpperCase()
toUpperCase(text) == [i \in 1..Len(text) |-> UpperChar(text[i])]

\* The pitch filters of the scan: pitchMin, pitchMax, noteName.
passesPitch(note, opts) ==
    /\ IsSome(opts.pitchMin) => note.midi >= Val(opts.pitchMin)
    /\ IsSome(opts.pitchMax) => note.midi <= Val(opts.pitchMax)
    /\ opts.noteName # <<>> =>
           withoutDigits(midiToNoteName(note.midi)) = toUpperCase(opts.noteName)

\* The measure filter on the note's position.
passesMeasure(pos, opts) ==
    /\ IsSome(opts.measureStart) => pos.measure >= Val(opts.measureStart)
    /\ IsSome(opts.measureEnd) => pos.measure <= Val(opts.measureEnd)

\* The entry pushed for a note.  beat is Math.round(pos.beat * 100) / 100 counted
\* in hundredths; velocity is Math.round(note.velocity * 127).
resultFor(ti, note, pos) ==
    [track |-> ti, measure |-> pos.measure, beat |-> Round(100 * pos.beat.n, pos.beat.d),
     name |-> midiToNoteName(note.midi), midi |-> note.midi,
     velocity |-> note.velocity, durationTicks |-> note.durationTicks]

\* results.push({ track, measure, beat, name, midi, velocity, durationTicks }) for
\* each note that passed
entriesOf(midi, ti, kept) ==
    [i \in 1..Len(kept) |-> resultFor(ti, kept[i], tickToMeasureBeat(midi, kept[i].ticks))]

\* for (const note of track.notes) { ... continue ... results.push(...) }
scanNotes(midi, ti, notes, opts) ==
    LET passes(note) ==
            /\ passesPitch(note, opts)
            /\ passesMeasure(tickToMeasureBeat(midi, note.ticks), opts)
    IN  entriesOf(midi, ti, SelectSeq(notes, passes))

\* trackIndex !== undefined ? [midi.tracks[trackIndex]].filter(Boolean) : midi.tracks,
\* as track indexes
tracksToScan(midi, trackIndex) ==
    IF IsSome(trackIndex)
    THEN IF HasTrack(midi, Val(trackIndex)) THEN <<Val(trackIndex)>> ELSE <<>>
    ELSE [k \in 1..Len(midi.tracks) |-> k - 1]

\* for (const track of tracksToScan) { ... }
RECURSIVE scanTracks(_, _, _, _, _)
scanTracks(midi, tis, k, opts, results) ==
    IF k > Len(tis) THEN results
    ELSE scanTracks(midi, tis, k + 1, opts,
                    results \o scanNotes(midi, tis[k], midi.tracks[tis[k] + 1].notes, opts))

\* (a, b) => a.measure - b.measure || a.beat - b.beat || a.midi - b.midi is negative
Before(a, b) ==
    \/ a.measure < b.measure
    \/ a.measure = b.measure /\ a.beat < b.beat
    \/ a.measure = b.measure /\ a.beat = b.beat /\ a.midi < b.midi

\* Place of results[i] in the sorted list: behind every entry that is before it and
\* every earlier entry it is not before (the sort is stable).
resultPos(results, i) ==
    1 + Cardinality({j \in DOMAIN results :
                        \/ Before(results[j], results[i])
                        \/ j < i /\ ~Before(results[i], results[j])})

sortInto(results, places) ==
    [k \in 1..Len(results) |-> results[CHOOSE i \in DOMAIN results : places[i] = k]]

\* results.sort(...): a stable sort; the places are worked out once, as a sequence.
sortResults(results) ==
    sortInto(results, <<>> \o [i \in DOMAIN results |-> resultPos(results, i)])

\* results.slice(0, 200)
sliceTo(results, limit) ==
    SubSeq(results, 1, IF Len(results) < limit THEN Len(results) ELSE limit)

\* Mutant: the list is cut to the limit before it is sorted.
searchReturn_SliceFirst(results) ==
    [err |-> IF \E i \in DOMAIN results : results[i].measure = 0 THEN "diverges"
             ELSE "none",
     count |-> Len(results), notes |-> sortResults(sliceTo(results, SearchLimit))]

\* { count: results.length, notes: results.slice(0, 200) }; a walk of
\* tickToMeasureBeat that does not end leaves the call without a result.
searchReturn(results) ==
    [err |-> IF \E i \in DOMAIN results : results[i].measure = 0 THEN "diverges"
             ELSE "none",
     count |-> Len(results), notes |-> sliceTo(sortResults(results), SearchLimit)]

searchResult(midi, opts) ==
    searchReturn(scanTracks(midi, tracksToScan(midi, opts.trackIndex), 1, opts, <<>>))

SearchRequest(alias, opts) ==
    [Request("searchNotes", alias,
             <<opts.pitchMin, opts.pitchMax, opts.trackIndex, opts.measureStart,
               opts.measureEnd>>, Null, <<>>)
       EXCEPT !.text = opts.noteName]

searched(request, result) ==
    /\ last' = [Outcome(request, result.err, <<result.count>>) EXCEPT !.out = result.notes]
    /\ UNCHANGED <<loaded, disk, pending, walk>>

\* The search_notes handler: engine.searchNotes(alias, opts) run to its return.
search_notes(alias, opts) ==
    IF ~IsLoaded(alias)
    THEN /\ last' = Outcome(SearchRequest(alias, opts), "NotFound", <<>>)
         /\ UNCHANGED <<loaded, disk, pending, walk>>
    ELSE searched(SearchRequest(alias, opts), searchResult(loaded[alias].midi, opts))

\* ── getMeasures ─────────────────────────────────────────────────────────────
\* A listed note is [track, beat, name, midi, velocity, durationBeats] with beat and
\* durationBeats counted in hundredths; a listed measure is [measure,
\* timeSignature, tempo, notes] with tempo counted in tenths.

\* The entry pushed for a note that starts in the measure.
measureNote(midi, ti, note, pos, den) ==
    [track |-> ti, beat |-> Round(100 * pos.beat.n, pos.beat.d),
     name |-> midiToNoteName(note.midi), midi |-> note.midi, velocity |-> note.velocity,
     durationBeats |-> Round(note.durationTicks * den * 100, midi.ppq * 4 * TickScale)]

measureNotesOf(midi, ti, kept, den) ==
    [i \in 1..Len(kept) |->
        measureNote(midi, ti, kept[i], tickToMeasureBeat(midi, kept[i].ticks), den)]

\* for (const note of track.notes) { if (note.ticks >= start && note.ticks < end) ... }
startingIn(midi, ti, notes, range, den) ==
    LET starts(note) == note.ticks >= range.start /\ note.ticks < range.end
    IN  measureNotesOf(midi, ti, SelectSeq(notes, starts), den)

\* for (const track of tracksToScan) { ... }
RECURSIVE collectTracks(_, _, _, _, _, _)
collectTracks(midi, tis, k, range, den, measureNotes) ==
    IF k > Len(tis) THEN measureNotes
    ELSE collectTracks(midi, tis, k + 1, range, den,
                       measureNotes
                       \o startingIn(midi, tis[k], midi.tracks[tis[k] + 1].notes, range, den))

\* (a, b) => a.beat - b.beat || a.midi - b.midi is negative
BeforeInMeasure(a, b) == a.beat < b.beat \/ (a.beat = b.beat /\ a.midi < b.midi)

measureNotePos(notes, i) ==
    1 + Cardinality({j \in DOMAIN notes :
                        \/ BeforeInMeasure(notes[j], notes[i])
                        \/ j < i /\ ~BeforeInMeasure(notes[i], notes[j])})

\* measureNotes.sort(...): a stable sort
sortMeasureNotes(notes) ==
    sortInto(notes, <<>> \o [i \in DOMAIN notes |-> measureNotePos(notes, i)])

\* One turn of for (let m = startMeasure; m <= endMeasure; m++)
measureListed(midi, m, tis, range, sig) ==
    [measure |-> m, timeSignature |-> sig,
     tempo |-> Round(10 * tempoAtTick(midi, range.start), 1),
     notes |-> sortMeasureNotes(collectTracks(midi, tis, 1, range, sig[2], <<>>))]

measureListedAt(midi, m, tis, range) ==
    measureListed(midi, m, tis, range, timeSigAtTick(midi, range.start))

\* { startMeasure, endMeasure, totalMeasures: total, measures } after the two
\* clamps; a walk of totalMeasures that does not end leaves the call without a
\* result.
measuresBetween(midi, startMeasure, endMeasure, tis, total) ==
    IF total < 0 THEN [err |-> "diverges", ret |-> <<>>, measures |-> <<>>]
    ELSE [err |-> "none", ret |-> <<startMeasure, endMeasure, total>>,
          measures |-> <<>> \o [k \in 1..(endMeasure - startMeasure + 1) |->
                                   measureListedAt(midi, startMeasure + k - 1, tis,
                                                   measureToTicks(midi, startMeasure + k - 1))]]

getMeasuresIn(midi, startMeasure, endMeasure, trackIndex, total) ==
    measuresBetween(midi, IF startMeasure < 1 THEN 1 ELSE startMeasure,
                    IF endMeasure > total THEN total ELSE endMeasure,
                    tracksToScan(midi, trackIndex), total)

MeasuresRequest(alias, startMeasure, endMeasure, trackIndex) ==
    Request("getMeasures", alias, <<<<startMeasure>>, <<endMeasure>>, trackIndex>>, Null, <<>>)

listed(request, result) ==
    /\ last' = [Outcome(request, result.err, result.ret) EXCEPT !.out = result.measures]
    /\ UNCHANGED <<loaded, disk, pending, walk>>

\* The get_measures handler: engine.getMeasures(alias, start, end, track) run to its
\* return.
get_measures(alias, startMeasure, endMeasure, trackIndex) ==
    IF ~IsLoaded(alias)
    THEN /\ last' = Outcome(MeasuresRequest(alias, startMeasure, endMeasure, trackIndex),
                            "NotFound", <<>>)
         /\ UNCHANGED <<loaded, disk, pending, walk>>
    ELSE listed(MeasuresRequest(alias, startMeasure, endMeasure, trackIndex),
                getMeasuresIn(loaded[alias].midi, startMeasure, endMeasure, trackIndex,
                              totalMeasures(loaded[alias].midi)))

\* ── Inputs ──────────────────────────────────────────────────────────────────

One == [n |-> 1, d |-> 1]

NoteC4 == [measure |-> 1, beat |-> One, noteName |-> <<"C", "4">>,
           velocity |-> None, durationBeats |-> One]
NoteH2 == [NoteC4 EXCEPT !.noteName = <<"H", "2">>]

\* The file on disk when the process starts: an empty song in 4/4 at 120 bpm.
SongFile ==
    [ppq |-> DefaultPpq, tempos |-> <<[ticks |-> 0, bpm |-> DefaultBpm]>>,
     timeSignatures |-> <<[ticks |-> 0, timeSignature |-> <<4, 4>>]>>,
     tracks |-> <<>>]

Aliases == {"a"}
\* The first track, and an index no document has a track at.
TrackIndexes == {0, MaxTracks}

Init ==
    /\ loaded = Empty
    /\ disk = [x \in {"/cwd/song.mid"} |-> SongFile]
    /\ pending = {}
    /\ last = Request("start", Null, <<>>, Null, <<>>)
    /\ walk = NoWalk

\* The registry under the single-writer discipline: no call on an alias starts while
\* a save of that alias is suspended.
Next ==
    \/ \E filePath \in RelPaths, alias \in Aliases :
         ~Busy(alias) /\ loadMidi(filePath, alias)
    \/ \E p \in pending : saveMidiResume(p)
    \/ \E p \in pending : saveMidiWriteFails(p)
    \/ \E alias \in Aliases, filePath \in {Null} :
         ~Busy(alias) /\ createMidi(alias, None, None, None, filePath)
    \/ \E alias \in Aliases, outputPath \in {Null, "song.mid"} :
         ~Busy(alias) /\ saveMidi(alias, outputPath)
    \/ \E alias \in Aliases : ~Busy(alias) /\ unloadMidi(alias)
    \/ \E alias \in Aliases, trackIndex \in TrackIndexes,
          notes \in {<<NoteC4>>, <<NoteC4, NoteH2>>, <<NoteH2>>} :
         /\ ~Busy(alias)
         /\ addNotes(alias, trackIndex, notes)
         /\ TrackLen(alias, trackIndex)' <= MaxNotes
    \/ \E alias \in Aliases, trackIndex \in TrackIndexes :
         ~Busy(alias) /\ deleteNotes(alias, trackIndex, 1, 1, None, None)
    \/ \E alias \in Aliases, trackIndex \in TrackIndexes :
         ~Busy(alias) /\ transposeNotes(alias, trackIndex, 100, None, None)
    \/ \E alias \in Aliases, trackIndex \in TrackIndexes,
          gridBeats \in {One, [n |-> 1, d |-> 1000]} :
         ~Busy(alias) /\ quantizeNotes(alias, trackIndex, gridBeats, None, None)
    \/ \E alias \in Aliases : ~Busy(alias) /\ setTempo(alias, 90, 0)
    \/ \E alias \in Aliases : ~Busy(alias) /\ setTimeSignature(alias, 3, 4, 0)
    \/ \E alias \in Aliases : ~Busy(alias) /\ addTrack(alias, Null, None)
    \/ \E alias \in Aliases, trackIndex \in TrackIndexes :
         ~Busy(alias) /\ setTrackInstrument(alias, trackIndex, 40)

Spec == Init /\ [][Next]_vars

\* ── Claims about the registry (Spec) ────────────────────────────────────────

Failed(o) == o.err \notin {"none", "awaiting", "running", "diverges"}

\* C1: addNotes is all-or-nothing: a call that fails (absent track, or an invalid
\* pitch name at any position of the batch) leaves the track's notes, the document
\* and its dirty flag exactly as before the call.
AddNotesAllOrNothing ==
    [][(last'.op = "addNotes" /\ Failed(last')) => loaded' = loaded]_vars


AliasOps == {"addNotes", "deleteNotes", "setTempo", "setTimeSignature", "addTrack",
             "setTrackInstrument", "transposeNotes", "quantizeNotes", "saveMidi",
             "unloadMidi"}
EditOps == AliasOps \ {"saveMidi", "unloadMidi"}
TrackCheckedOps == {"deleteNotes", "transposeNotes", "quantizeNotes", "setTrackInstrument"}

\* The call of this step fails validation in the state it is made in.
AbsentAlias(o) == o.op \in AliasOps /\ o.alias \notin DOMAIN loaded
AbsentTrack(o) ==
    /\ o.op \in TrackCheckedOps
    /\ o.alias \in DOMAIN loaded
    /\ ~HasTrack(loaded[o.alias].midi, o.args[1][1])
BadGrid(o) ==
    /\ o.op = "quantizeNotes"
    /\ o.alias \in DOMAIN loaded
    /\ HasTrack(loaded[o.alias].midi, o.args[1][1])
    /\ Round(loaded[o.alias].midi.ppq * o.args[2][1], o.args[2][2]) <= 0

\* C2: a call that fails validation (alias not in the registry; track index absent
\* for delete, transpose, quantize, setInstrument; gridTicks <= 0 for quantize)
\* reports an error and leaves the registry, every document and every dirty flag
\* unchanged.
FailedValidationChangesNothing ==
    [][(AbsentAlias(last') \/ AbsentTrack(last') \/ BadGrid(last'))
         => (Failed(last') /\ loaded' = loaded /\ disk' = disk /\ pending' = pending)]_vars

\* A clean entry with a note is asked to quantize on a grid that rounds to 0 ticks.
FailedValidationWitness ==
    /\ last.op = "quantizeNotes" /\ last.err = "InvalidGrid"
    /\ ~loaded[last.alias].dirty
    /\ Len(loaded[last.alias].midi.tracks[1].notes) > 0

\* The step concludes a call that produces a clean entry / an edited entry.
Cleans(o) == o.op \in {"loadMidi", "saveMidi"} /\ o.err \in {"none", "diverges"}
Edits(o) == o.op = "createMidi" \/ (o.op \in EditOps /\ o.err = "none")

\* C7: an entry is clean exactly when load produced it or a successful save touched
\* it with no successful editing operation since: load and a successful save clear
\* dirty, create and every successful editing operation set it, nothing else
\* changes it.
DirtyTracksEdits ==
    [][\A a \in DOMAIN loaded' :
          loaded'[a].dirty =
              IF last'.alias = a /\ Cleans(last') THEN FALSE
              ELSE IF last'.alias = a /\ Edits(last') THEN TRUE
              ELSE loaded[a].dirty]_vars

\* A delete that removes nothing from a clean entry still marks it dirty.
DirtyTracksEditsWitness ==
    /\ last.op = "deleteNotes" /\ last.err = "none" /\ last.ret[1] = 0
    /\ loaded[last.alias].dirty
    /\ loaded[last.alias].filePath # Null

\* C8: saveMidi without outputPath on an entry without stored path fails and writes
\* nothing; a save whose write succeeds stores the resolved target as the path,
\* clears dirty and has written the document there; a failed write changes neither.
SaveResolvesPath ==
    [][last'.op = "saveMidi" /\ last'.alias \in DOMAIN loaded =>
         LET a == last'.alias
             target == IF last'.path # Null THEN resolve(last'.path) ELSE loaded[a].filePath
         IN CASE last'.err \in {"NoPath", "awaiting"} ->
                   /\ (last'.err = "NoPath") = (target = Null)
                   /\ loaded' = loaded /\ disk' = disk
                   /\ pending' = IF target = Null THEN pending
                                 ELSE pending \cup {[alias |-> a, target |-> target,
                                                     buffer |-> loaded[a].midi]}
              [] last'.err \in {"none", "diverges"} ->
                   /\ \E p \in pending : p.alias = a /\ p.target = last'.path
                   /\ loaded' = [loaded EXCEPT ![a].filePath = last'.path,
                                               ![a].dirty = FALSE]
                   /\ disk' = Put(disk, last'.path, loaded[a].midi)
              [] OTHER -> loaded' = loaded /\ disk' = disk]_vars

\* A created document without path was saved to song.mid and is now clean there.
SaveResolvesPathWitness ==
    /\ last.op = "saveMidi" /\ last.err = "none"
    /\ loaded[last.alias].filePath = "/cwd/song.mid"
    /\ ~loaded[last.alias].dirty
    /\ loaded[last.alias].midi.tracks # <<>>
    /\ disk["/cwd/song.mid"] = loaded[last.alias].midi

\* ── The time map (SpecTime) ─────────────────────────────────────────────────
\* Documents whose event lists are built by load, create, setTempo and
\* setTimeSignature; the claims apply the time-map functions to every one of them.

\* A file without tempo or time-signature events.
BareFile == [ppq |-> DefaultPpq, tempos |-> <<>>, timeSignatures |-> <<>>, tracks |-> <<>>]

Bpms == {90, 150}
TempoTicks == {0, 480, 960}
TimeSignatures == {<<3, 4>>, <<5, 8>>}
\* Ticks inside a measure for every signature of the model.
SigTicks == {0, 1000, 2000}

InitTime ==
    /\ loaded = Empty
    /\ disk = [x \in {"/cwd/song.mid"} |-> BareFile]
    /\ pending = {}
    /\ last = Request("start", Null, <<>>, Null, <<>>)
    /\ walk = NoWalk

NextTime ==
    \/ \E alias \in Aliases : loadMidi("song.mid", alias)
    \/ \E alias \in Aliases : createMidi(alias, None, None, None, Null)
    \/ \E alias \in Aliases, bpm \in Bpms, atTick \in TempoTicks :
         setTempo(alias, bpm, atTick)
    \/ \E alias \in Aliases, sig \in TimeSignatures, atTick \in SigTicks :
         setTimeSignature(alias, sig[1], sig[2], atTick)

SpecTime == InitTime /\ [][NextTime]_vars

\* ── Claims about the time map (SpecTime) ────────────────────────────────────

PositiveSignatures(midi) ==
    \A i \in DOMAIN midi.timeSignatures :
        /\ midi.timeSignatures[i].timeSignature[1] > 0
        /\ midi.timeSignatures[i].timeSignature[2] > 0

\* C3: for every measure number m >= 1 and every list of time-signature events
\* (positive numerator and denominator, ticks on or off measure boundaries),
\* tickToMeasureBeat(measureToTicks(m).start) is exactly measure m, beat 1.
MeasureStartRoundTrip ==
    \A a \in DOMAIN loaded, m \in 1..MaxMeasure :
        PositiveSignatures(loaded[a].midi) =>
            tickToMeasureBeat(loaded[a].midi, measureToTicks(loaded[a].midi, m).start)
                = [measure |-> m, beat |-> One]

\* Two signature events, the second strictly inside measure 1, and a different
\* measure length from measure 2 on.
MeasureStartRoundTripWitness ==
    \E a \in DOMAIN loaded :
        /\ last.op = "setTimeSignature"
        /\ Len(loaded[a].midi.timeSignatures) = 2
        /\ loaded[a].midi.timeSignatures[1].ticks = 0
        /\ loaded[a].midi.timeSignatures[2].ticks = Ticks(1000)
        /\ measureToTicks(loaded[a].midi, 2).start > Ticks(1000)
        /\ ticksPerMeasure(loaded[a].midi, 0)
             # ticksPerMeasure(loaded[a].midi, measureToTicks(loaded[a].midi, 2).start)
        /\ tickToMeasureBeat(loaded[a].midi,
                             measureToTicks(loaded[a].midi, 3).start).measure = 3

QueryTicks == {Ticks(t) : t \in {0, 479, 480, 700, 960, 2000}}

\* The events of the list at or before the tick.
AtOrBefore(events, tick) == {i \in DOMAIN events : events[i].ticks <= tick}

\* C5: for every tick T and every tempo list built by load or create and setTempo
\* calls, the tempo in effect at T is the bpm of the last event with tick <= T, and
\* 120 when no event has tick <= T (also when the list is non-empty and its first
\* event lies after T).
TempoIsLastEventAtOrBefore ==
    \A a \in DOMAIN loaded, T \in QueryTicks :
        tempoAtTick(loaded[a].midi, T) =
            IF AtOrBefore(loaded[a].midi.tempos, T) = {} THEN 120
            ELSE loaded[a].midi.tempos[MaxOf(AtOrBefore(loaded[a].midi.tempos, T))].bpm

StrictlyIncreasing(events) ==
    \A i \in DOMAIN events : i > 1 => events[i - 1].ticks < events[i].ticks

\* The list is the old list with the event written at its tick: one event there,
\* carrying the written value, and every other event of the old list kept.
WrittenAt(old, new, event) ==
    /\ Range(new) = {e \in Range(old) : e.ticks # event.ticks} \cup {event}
    /\ Len(new) = IF HasEventAt(old, event.ticks) THEN Len(old) ELSE Len(old) + 1

\* C6: after any sequence of setTempo and setTimeSignature calls on documents whose
\* lists started sorted and duplicate-free, the tempo list and the time-signature
\* list have strictly increasing ticks, and a write at an existing tick replaces
\* that event's value instead of adding a second event.
EventListsStayStrict ==
    [][\A a \in DOMAIN loaded' :
          /\ StrictlyIncreasing(loaded'[a].midi.tempos)
          /\ StrictlyIncreasing(loaded'[a].midi.timeSignatures)
          /\ (last'.op = "setTempo" /\ last'.alias = a /\ last'.err = "none") =>
                 WrittenAt(loaded[a].midi.tempos, loaded'[a].midi.tempos,
                           [ticks |-> Ticks(last'.args[2][1]), bpm |-> last'.args[1][1]])
          /\ (last'.op = "setTimeSignature" /\ last'.alias = a /\ last'.err = "none") =>
                 WrittenAt(loaded[a].midi.timeSignatures, loaded'[a].midi.timeSignatures,
                           [ticks |-> Ticks(last'.args[3][1]),
                            timeSignature |-> <<last'.args[1][1], last'.args[2][1]>>])]_vars

\* A created document (no stored path, seeded with 120 bpm at tick 0) whose tick-0
\* tempo was overwritten with 90 while a later event stays behind it.
EventListsStayStrictWitness ==
    \E a \in DOMAIN loaded :
        /\ last.op = "setTempo" /\ last.err = "none" /\ last.args = <<<<90>>, <<0>>>>
        /\ loaded[a].filePath = Null
        /\ Len(loaded[a].midi.tempos) = 2
        /\ loaded[a].midi.tempos[1] = [ticks |-> 0, bpm |-> 90]
        /\ Len(loaded[a].midi.timeSignatures) = 2

\* ── The walks (SpecWalk) ────────────────────────────────────────────────────
\* Documents with notes and time signatures written through the engine's
\* setTimeSignature, which stores any numerator; getMidiInfo and searchNotes run
\* the walks over them.

NoteM2 == [NoteC4 EXCEPT !.measure = 2]

\* Numerators the engine stores: it rejects none.
Numerators == {0, 3}

NextWalk ==
    \/ \E alias \in Aliases : Idle /\ loadMidi("song.mid", alias)
    \/ \E alias \in Aliases : Idle /\ addTrack(alias, Null, None)
    \/ \E alias \in Aliases, notes \in {<<NoteC4>>, <<NoteM2>>} :
         Idle /\ addNotes(alias, 0, notes) /\ TrackLen(alias, 0)' <= MaxNotes
    \/ \E alias \in Aliases, numerator \in Numerators, atTick \in {0, 1440} :
         Idle /\ setTimeSignature(alias, numerator, 4, atTick)
    \/ \E alias \in Aliases : Idle /\ getMidiInfo(alias)
    \/ \E alias \in Aliases : Idle /\ searchNotes(alias)
    \/ totalMeasuresStep
    \/ tickToMeasureBeatStep

SpecWalk == Init /\ [][NextWalk]_vars

\* The loop the walk is in has met ticksPerMeasure <= 0 and goes round again.
NonAdvancing(w) ==
    \/ /\ w.pc = "totalMeasures"
       /\ w.currentTick < w.lastTick
       /\ ticksPerMeasure(loaded[w.request.alias].midi, w.currentTick) <= 0
    \/ /\ w.pc = "tickToMeasureBeat"
       /\ ticksPerMeasure(loaded[w.request.alias].midi, w.currentTick) <= 0
       /\ w.currentTick <= Head(w.todo)

\* C4: the forward measure walk always terminates: when the time signature in
\* effect makes ticksPerMeasure zero or negative, tickToMeasureBeat and
\* totalMeasures fail fast with an error instead of going round the loop again.
WalkFailsFast ==
    [][(~Idle /\ NonAdvancing(walk)) => (walk'.pc = "idle" /\ Failed(last'))]_vars

\* ── Notes of a tune (SpecNotes) ─────────────────────────────────────────────
\* A document loaded with a note off every grid, edited by addNotes, quantizeNotes
\* and transposeNotes over measure ranges.

\* A file in 3/4 with one track holding D8 (110) late in measure 1.
TuneFile ==
    [ppq |-> DefaultPpq, tempos |-> <<[ticks |-> 0, bpm |-> DefaultBpm]>>,
     timeSignatures |-> <<[ticks |-> 0, timeSignature |-> <<3, 4>>]>>,
     tracks |-> <<[name |-> <<"Lead">>, instrument |-> 0,
                   notes |-> <<[midi |-> 110, ticks |-> Ticks(1300),
                                durationTicks |-> Ticks(200),
                                velocity |-> DefaultVelocity]>>]>>]

\* G9 (127) a third of a beat into measure 2.
NoteG9 == [measure |-> 2, beat |-> [n |-> 4, d |-> 3], noteName |-> <<"G", "9">>,
           velocity |-> Some(100), durationBeats |-> One]

\* A4 half a beat into measure 1: halfway between two lines of the one-beat grid.
NoteHalfway == [measure |-> 1, beat |-> [n |-> 3, d |-> 2], noteName |-> <<"A", "4">>,
                velocity |-> None, durationBeats |-> [n |-> 1, d |-> 2]]

Grids == {[n |-> 1, d |-> 4], One}
\* measureStart and measureEnd: everything, measure 1, measure 2 onwards.
Ranges == {<<None, None>>, <<Some(1), Some(1)>>, <<Some(2), None>>}

InitNotes ==
    /\ loaded = Empty
    /\ disk = [x \in {"/cwd/song.mid"} |-> TuneFile]
    /\ pending = {}
    /\ last = Request("start", Null, <<>>, Null, <<>>)
    /\ walk = NoWalk

\* The caller transposes down an octave only to undo the transposition up it has
\* just made over the same track and range.
NextNotes ==
    \/ \E alias \in Aliases : loadMidi("song.mid", alias)
    \/ \E alias \in Aliases, n \in {NoteG9, NoteHalfway} :
         addNotes(alias, 0, <<n>>) /\ TrackLen(alias, 0)' <= MaxTune
    \/ \E alias \in Aliases, gridBeats \in Grids, range \in Ranges :
         quantizeNotes(alias, 0, gridBeats, range[1], range[2])
    \/ \E alias \in Aliases, range \in Ranges :
         transposeNotes(alias, 0, 12, range[1], range[2])
    \/ \E alias \in Aliases, range \in Ranges :
         /\ last = Outcome(Request("transposeNotes", alias,
                                   <<<<0>>, <<12>>, range[1], range[2]>>, Null, <<>>),
                           "none", last.ret)
         /\ transposeNotes(alias, 0, -12, range[1], range[2])

SpecNotes == InitNotes /\ [][NextNotes]_vars

\* ── Claims about the notes (SpecNotes) ──────────────────────────────────────

NotesOf(entry, trackIndex) == entry.midi.tracks[trackIndex + 1].notes

Onsets(notes) == [i \in DOMAIN notes |-> notes[i].ticks]

\* The entry after the quantizeNotes call of the outcome is made on it once more.
QuantizedAgain(entry, o) ==
    quantizeNotesOn(entry, o.args[1][1], [n |-> o.args[2][1], d |-> o.args[2][2]],
                    o.args[3], o.args[4]).entry

\* C9: quantizeNotes is idempotent: for any track, grid with gridTicks > 0 and
\* optional measure range, after a call a second call with the same arguments
\* leaves every note's start tick at its value after the first call.
QuantizeIdempotent ==
    (last.op = "quantizeNotes" /\ last.err = "none") =>
        Onsets(NotesOf(QuantizedAgain(loaded[last.alias], last), last.args[1][1]))
            = Onsets(NotesOf(loaded[last.alias], last.args[1][1]))

\* Quantizing measure 1 on the one-beat grid found one note in the measure and
\* moved the file's note (1300) onto the measure's end (1440), out of the range.
QuantizeIdempotentWitness ==
    /\ last.op = "quantizeNotes" /\ last.err = "none"
    /\ last.args = <<<<0>>, <<1, 1>>, Some(1), Some(1)>>
    /\ last.ret = <<1>>
    /\ \E n \in Range(NotesOf(loaded[last.alias], 0)) :
           n.durationTicks = Ticks(200) /\ n.ticks = Ticks(1440)
    /\ Len(NotesOf(loaded[last.alias], 0)) = 2

\* The notes after transposeNotes by -12 over the track and range of the outcome.
TransposedBack(entry, o) ==
    NotesOf(transposeNotesOn(entry, o.args[1][1], -12, o.args[3], o.args[4]).entry,
            o.args[1][1])

\* The round trip from the notes before the +12 call: pitches that were not clamped
\* are restored, notes outside the range are as they were after each call.
Restored(midi, before, between, after, measureStart, measureEnd) ==
    \A i \in DOMAIN before :
        IF InRange(before[i], rangeStart(midi, measureStart), rangeEnd(midi, measureEnd))
        THEN before[i].midi + 12 <= 127 => after[i].midi = before[i].midi
        ELSE between[i] = before[i] /\ after[i] = before[i]

\* C10: transposeNotes by +12 followed by transposeNotes by -12 over the same track
\* and range restores the original pitch of every note whose intermediate pitch
\* was not clamped at 0 or 127; notes outside the range are never changed.
TransposeRoundTrip ==
    [][(last'.op = "transposeNotes" /\ last'.err = "none" /\ last'.args[2] = <<12>>) =>
           Restored(loaded[last'.alias].midi,
                    NotesOf(loaded[last'.alias], last'.args[1][1]),
                    NotesOf(loaded'[last'.alias], last'.args[1][1]),
                    TransposedBack(loaded'[last'.alias], last'),
                    last'.args[3], last'.args[4])]_vars

\* Measure 1 went up an octave and down again: the file's note is back at 110 and
\* G9 in measure 2 was never touched.
TransposeRoundTripWitness ==
    /\ last.op = "transposeNotes" /\ last.err = "none"
    /\ last.args = <<<<0>>, <<-12>>, Some(1), Some(1)>>
    /\ last.ret = <<1>>
    /\ Len(NotesOf(loaded[last.alias], 0)) = 2
    /\ NotesOf(loaded[last.alias], 0)[1].midi = 110
    /\ NotesOf(loaded[last.alias], 0)[2].midi = 127

\* ── Searching and deleting (SpecSearch) ─────────────────────────────────────
\* A document with two tracks, searched by pitch, pitch class, track and measure,
\* while notes are added to and deleted from it.

NoteOf(midi, ticks, durationTicks) ==
    [midi |-> midi, ticks |-> Ticks(ticks), durationTicks |-> Ticks(durationTicks),
     velocity |-> DefaultVelocity]

\* A file in 4/4.  Keys: C#-1 on beat 1, C#4 on beat 2 of measure 1 held into
\* measure 2, A#4 on beat 1 of measure 2.  Bass: C#2 on beat 1 of measure 2.
ChordFile ==
    [ppq |-> DefaultPpq, tempos |-> <<[ticks |-> 0, bpm |-> DefaultBpm]>>,
     timeSignatures |-> <<[ticks |-> 0, timeSignature |-> <<4, 4>>]>>,
     tracks |-> <<[name |-> <<"Keys">>, instrument |-> 0,
                   notes |-> <<NoteOf(1, 0, 480), NoteOf(61, 480, 2400),
                               NoteOf(70, 1920, 480)>>],
                  [name |-> <<"Bass">>, instrument |-> 32,
                   notes |-> <<NoteOf(37, 1920, 480)>>]>>]

\* E4 on beat 5 of measure 1, and F4 halfway through beat 2 of measure 2.
NoteBeat5 == [measure |-> 1, beat |-> [n |-> 5, d |-> 1], noteName |-> <<"E", "4">>,
              velocity |-> Some(90), durationBeats |-> One]
NoteHalf == [measure |-> 2, beat |-> [n |-> 5, d |-> 2], noteName |-> <<"F", "4">>,
             velocity |-> None, durationBeats |-> One]

PitchClasses == {<<>>, <<"C", "#">>, <<"c", "#">>, <<"B", "b">>, <<"b", "b">>}

SearchOpts ==
    {[pitchMin |-> IF name = <<>> THEN ti ELSE None, pitchMax |-> None, noteName |-> name,
      trackIndex |-> ti, measureStart |-> m, measureEnd |-> m] :
        name \in PitchClasses, ti \in {None, Some(0)}, m \in {None, Some(2)}}

InitSearch ==
    /\ loaded = Empty
    /\ disk = [x \in {"/cwd/song.mid"} |-> ChordFile]
    /\ pending = {}
    /\ last = Request("start", Null, <<>>, Null, <<>>)
    /\ walk = NoWalk

NextSearch ==
    \/ \E alias \in Aliases : loadMidi("song.mid", alias)
    \/ \E alias \in Aliases, notes \in {<<NoteBeat5>>, <<NoteHalf>>} :
         addNotes(alias, 0, notes) /\ TrackLen(alias, 0)' <= MaxChord
    \/ \E alias \in Aliases, opts \in SearchOpts : search_notes(alias, opts)
    \/ \E alias \in Aliases, trackIndex \in {0, 1}, measure \in 1..2,
          pitches \in {<<None, None>>, <<Some(60), Some(70)>>} :
         deleteNotes(alias, trackIndex, measure, measure, pitches[1], pitches[2])
    \/ \E alias \in Aliases : setTimeSignature(alias, 3, 4, 0)

SpecSearch == InitSearch /\ [][NextSearch]_vars

\* ── Claims about searching and deleting (SpecSearch) ────────────────────────

\* The rounded beat (hundredths) is within 0.01 of the beat n/d.
WithinHundredth(beat, b) ==
    /\ beat * b.d - 100 * b.n <= b.d
    /\ 100 * b.n - beat * b.d <= b.d

\* The list has an entry with the measure, beat, pitch and velocity of the input.
FoundAs(n, notes) ==
    \E k \in DOMAIN notes :
        /\ notes[k].measure = n.measure
        /\ WithinHundredth(notes[k].beat, n.beat)
        /\ notes[k].midi = noteNameToMidi(n.noteName).midi
        /\ notes[k].velocity = IF IsSome(n.velocity) THEN Val(n.velocity) ELSE 80

\* Filters that match the input: its track and its pitch.
FiltersFor(n, trackIndex) ==
    [pitchMin |-> Some(noteNameToMidi(n.noteName).midi),
     pitchMax |-> Some(noteNameToMidi(n.noteName).midi), noteName |-> <<>>,
     trackIndex |-> Some(trackIndex), measureStart |-> None, measureEnd |-> None]

\* C11: after addNotes succeeds for a note given as (measure m, beat b, pitch name,
\* durationBeats, velocity v or omitted = 80), a searchNotes with filters matching
\* the note returns an entry with measure m, beat b within 0.01, the decoded pitch
\* and velocity v, for every beat b >= 1 and any time-signature map.
AddedIsFound ==
    (last.op = "addNotes" /\ last.err = "none") =>
        \A i \in DOMAIN last.notes :
            FoundAs(last.notes[i],
                    searchResult(loaded[last.alias].midi,
                                 FiltersFor(last.notes[i], last.args[1][1])).notes)

\* The pitch class a text names: letter of either case, sharps or flats.
PitchClassOf(text) ==
    (LetterBase(Head(text)) + RunLen(Tail(text), "#") - RunLen(Tail(text), "b") + 12) % 12

\* The note satisfies every filter the search call of the outcome supplied.
Satisfies(midi, ti, note, o) ==
    /\ IsSome(o.args[1]) => note.midi >= Val(o.args[1])
    /\ IsSome(o.args[2]) => note.midi <= Val(o.args[2])
    /\ IsSome(o.args[3]) => ti = Val(o.args[3])
    /\ IsSome(o.args[4]) => tickToMeasureBeat(midi, note.ticks).measure >= Val(o.args[4])
    /\ IsSome(o.args[5]) => tickToMeasureBeat(midi, note.ticks).measure <= Val(o.args[5])
    /\ o.text # <<>> => note.midi % 12 = PitchClassOf(o.text)

Satisfying(midi, o) ==
    {p \in UNION {{<<t, i>> : i \in DOMAIN midi.tracks[t].notes} : t \in DOMAIN midi.tracks} :
        Satisfies(midi, p[1] - 1, midi.tracks[p[1]].notes[p[2]], o)}

\* C13: searchNotes with a pitch-class filter returns exactly the notes whose pitch
\* modulo 12 is the named class, in any octave, for any letter case, for sharp and
\* flat spellings alike, ANDed with every other supplied filter; omitted filters
\* exclude nothing.
SearchMatchesPitchClass ==
    (last.op = "searchNotes" /\ last.err = "none") =>
        /\ last.ret[1] = Cardinality(Satisfying(loaded[last.alias].midi, last))
        /\ \A k \in DOMAIN last.out :
               last.text # <<>> => last.out[k].midi % 12 = PitchClassOf(last.text)

\* The notes of the track that a deleteNotes call with these arguments removes.
Removed(midi, notes, o) ==
    LET gone(note) ==
            /\ note.ticks >= measureToTicks(midi, o.args[2][1]).start
            /\ note.ticks < measureToTicks(midi, o.args[3][1]).end
            /\ IsSome(o.args[4]) => note.midi >= Val(o.args[4])
            /\ IsSome(o.args[5]) => note.midi <= Val(o.args[5])
    IN SelectSeq(notes, gone)

Remaining(midi, notes, o) ==
    LET stays(note) ==
            ~ /\ note.ticks >= measureToTicks(midi, o.args[2][1]).start
              /\ note.ticks < measureToTicks(midi, o.args[3][1]).end
              /\ IsSome(o.args[4]) => note.midi >= Val(o.args[4])
              /\ IsSome(o.args[5]) => note.midi <= Val(o.args[5])
    IN SelectSeq(notes, stays)

DeletedFrom(before, after, trackIndex, o) ==
    /\ after = [before EXCEPT
                  !.tracks[trackIndex + 1].notes =
                      Remaining(before, before.tracks[trackIndex + 1].notes, o)]
    /\ o.ret = <<Len(Removed(before, before.tracks[trackIndex + 1].notes, o)),
                 Len(after.tracks[trackIndex + 1].notes)>>
    /\ o.ret[1] + o.ret[2] = Len(before.tracks[trackIndex + 1].notes)

\* C14: deleteNotes removes exactly the notes of the target track whose start tick
\* lies in [start of measureStart, end of measureEnd) and whose pitch satisfies the
\* optional pitch range; every other note of the track and all notes of other
\* tracks are unchanged, removedCount + remainingNotes is the track's prior note
\* count, and a range without onsets reports removedCount = 0 (a note that starts
\* earlier and sustains into the range is kept).
DeleteRemovesExactlyRange ==
    [][(last'.op = "deleteNotes" /\ last'.err = "none") =>
           DeletedFrom(loaded[last'.alias].midi, loaded'[last'.alias].midi,
                       last'.args[1][1], last')]_vars

\* Measure 2 of Keys was deleted in 4/4: A#4 is gone, C#4 held over from measure 1
\* stays, Bass keeps its note of measure 2.
DeleteRemovesExactlyRangeWitness ==
    /\ last.op = "deleteNotes" /\ last.err = "none"
    /\ last.args = <<<<0>>, <<2>>, <<2>>, None, None>>
    /\ last.ret = <<1, 2>>
    /\ loaded[last.alias].midi.timeSignatures[1].timeSignature = <<4, 4>>
    /\ loaded[last.alias].midi.tracks[1].notes = <<NoteOf(1, 0, 480), NoteOf(61, 480, 2400)>>
    /\ loaded[last.alias].midi.tracks[2].notes = <<NoteOf(37, 1920, 480)>>

\* ── Searching a long document (SpecLong) ────────────────────────────────────
\* A document with more notes than searchNotes returns, in two tracks whose notes
\* alternate in time.

\* count notes, one every step ticks from offset on, pitches cycling from low.
NoteRun(count, offset, step, low) ==
    [i \in 1..count |-> NoteOf(low + ((i - 1) % 24), offset + (i - 1) * step, 10)]

\* Upper has three quarters of the limit, Lower as many notes as are needed to pass
\* the limit by two; both run through measures 1 and 2 of 4/4.
LongFile ==
    [ppq |-> DefaultPpq, tempos |-> <<[ticks |-> 0, bpm |-> DefaultBpm]>>,
     timeSignatures |-> <<[ticks |-> 0, timeSignature |-> <<4, 4>>]>>,
     tracks |-> <<[name |-> <<"Upper">>, instrument |-> 0,
                   notes |-> NoteRun((3 * SearchLimit) \div 4, 0, 24, 60)],
                  [name |-> <<"Lower">>, instrument |-> 0,
                   notes |-> NoteRun(SearchLimit \div 4 + 2, 12, 48, 36)]>>]

LongOpts ==
    {[pitchMin |-> lo, pitchMax |-> None, noteName |-> <<>>, trackIndex |-> ti,
      measureStart |-> None, measureEnd |-> None] :
        lo \in {None, Some(40)}, ti \in {None, Some(1)}}

InitLong ==
    /\ loaded = Empty
    /\ disk = [x \in {"/cwd/song.mid"} |-> LongFile]
    /\ pending = {}
    /\ last = Request("start", Null, <<>>, Null, <<>>)
    /\ walk = NoWalk

NextLong ==
    \/ \E alias \in Aliases : loadMidi("song.mid", alias)
    \/ \E alias \in Aliases, opts \in LongOpts : search_notes(alias, opts)
    \/ \E alias \in Aliases, trackIndex \in {0, 1}, measure \in 1..2,
          pitches \in {<<None, None>>, <<Some(50), Some(70)>>} :
         deleteNotes(alias, trackIndex, measure, measure, pitches[1], pitches[2])

SpecLong == InitLong /\ [][NextLong]_vars

\* The entries searchNotes builds for the notes that satisfy the call's filters.
EntriesOf(midi, o) ==
    {resultFor(p[1] - 1, midi.tracks[p[1]].notes[p[2]],
               tickToMeasureBeat(midi, midi.tracks[p[1]].notes[p[2]].ticks)) :
        p \in Satisfying(midi, o)}

\* The list is a part of the entries, in ascending order, that leaves out no entry
\* ordered before one it holds.
SortedPrefixOf(list, entries) ==
    /\ Range(list) \subseteq entries
    /\ Cardinality(Range(list)) = Len(list)
    /\ \A k \in DOMAIN list : k > 1 => ~Before(list[k], list[k - 1])
    /\ \A e \in entries \ Range(list) : \A k \in DOMAIN list : ~Before(e, list[k])

\* C12: searchNotes returns count equal to the number of all matching notes before
\* truncation, and notes equal to the first min(count, 200) matches of the list
\* sorted ascending by (measure, beat, pitch); no returned note precedes an
\* omitted one in that order.
SearchTruncatesSorted ==
    (last.op = "searchNotes" /\ last.err = "none") =>
        /\ last.ret[1] = Cardinality(Satisfying(loaded[last.alias].midi, last))
        /\ Len(last.out) = IF last.ret[1] < 200 THEN last.ret[1] ELSE 200
        /\ SortedPrefixOf(last.out, EntriesOf(loaded[last.alias].midi, last))

\* A search without filters matched more notes than it returns, and returned notes
\* of both tracks.
SearchTruncatesSortedWitness ==
    /\ last.op = "searchNotes" /\ last.err = "none"
    /\ last.ret[1] > 200
    /\ Len(last.out) = 200
    /\ \E k \in DOMAIN last.out : last.out[k].track = 0
    /\ \E k \in DOMAIN last.out : last.out[k].track = 1

\* ── Two aliases (SpecAliases) ───────────────────────────────────────────────
\* Documents are created, loaded, edited and unloaded under two aliases and, when
\* load_midi is given no alias, under the file's absolute path.

TwoAliases == {"a", "b"}

InitAliases ==
    /\ loaded = Empty
    /\ disk = [x \in AbsPaths |-> IF x = "/cwd/song.mid" THEN TuneFile ELSE SongFile]
    /\ pending = {}
    /\ last = Request("start", Null, <<>>, Null, <<>>)
    /\ walk = NoWalk

NextAliases ==
    \/ \E filePath \in RelPaths, alias \in TwoAliases \cup {Null} :
         loadMidi(filePath, alias)
    \/ \E alias \in TwoAliases, bpm \in {None, Some(90)}, filePath \in {Null, "out.mid"} :
         createMidi(alias, bpm, None, None, filePath)
    \/ \E alias \in TwoAliases \cup {"/cwd/song.mid"} : unloadMidi(alias)
    \/ \E alias \in TwoAliases : addTrack(alias, <<"Pad">>, None)
    \/ \E alias \in TwoAliases : setTempo(alias, 150, 0)

SpecAliases == InitAliases /\ [][NextAliases]_vars

\* Every entry but the one under alias is as it was, and no other key came or went.
OthersUnchanged(alias) ==
    /\ DOMAIN loaded' \ {alias} = DOMAIN loaded \ {alias}
    /\ \A other \in DOMAIN loaded \ {alias} : loaded'[other] = loaded[other]

\* The call that has just returned a result.
Did(op) == last'.op = op /\ last'.err = "none"

\* create_midi returned: the entry is the new document and nothing else.
CreatedAfresh ==
    /\ last'.alias \in DOMAIN loaded'
    /\ loaded'[last'.alias].midi.tracks = <<>>
    /\ loaded'[last'.alias].midi.tempos =
           <<[ticks |-> 0, bpm |-> IF IsSome(last'.args[1]) THEN Val(last'.args[1]) ELSE 120]>>
    /\ loaded'[last'.alias].filePath =
           (IF last'.path = Null THEN Null ELSE resolve(last'.path))
    /\ loaded'[last'.alias].dirty
    /\ OthersUnchanged(last'.alias)

\* load_midi returned: the entry is the file's document, clean, at the file's path.
LoadedAfresh ==
    /\ last'.alias \in DOMAIN loaded'
    /\ loaded'[last'.alias] =
           [midi |-> disk[resolve(last'.path)], filePath |-> resolve(last'.path),
            dirty |-> FALSE]
    /\ OthersUnchanged(last'.alias)

\* unload_midi returned: the entry is gone and its dirty flag was reported.
UnloadedWithFlag ==
    /\ last'.alias \in DOMAIN loaded
    /\ last'.alias \notin DOMAIN loaded'
    /\ last'.ret = <<IF loaded[last'.alias].dirty THEN 1 ELSE 0>>
    /\ OthersUnchanged(last'.alias)

\* C15: after create or load with an alias that already has an entry the registry
\* holds one entry for the alias, the new document, with none of the previous
\* document's tracks, notes, path or dirty state, and the entries under other
\* aliases are unchanged; after unload the alias is absent and the call reported
\* the dirty flag the entry had.
AliasesAreUniqueKeys ==
    [][(Did("createMidi") => CreatedAfresh) /\ (Did("loadMidi") => LoadedAfresh)
         /\ (Did("unloadMidi") => UnloadedWithFlag)]_vars

\* create_midi has just replaced, under alias a, the loaded tune after an edit of
\* it, while alias b holds an edited document of its own.
AliasesAreUniqueKeysWitness ==
    /\ last.op = "createMidi" /\ last.alias = "a" /\ last.path = Null
    /\ "a" \in DOMAIN loaded /\ loaded["a"].midi.tracks = <<>>
    /\ loaded["a"].filePath = Null
    /\ "b" \in DOMAIN loaded /\ loaded["b"].filePath = "/cwd/song.mid"
    /\ loaded["b"].dirty /\ Len(loaded["b"].midi.tracks) = 1

\* ── Pitches at the ends of the range (SpecPitch) ────────────────────────────
\* Notes are added by names that decode to 0, 63, 64, 127, 128 and -1 and transposed
\* by more than the whole range and by half of it.

NoteE4 == [NoteC4 EXCEPT !.noteName = <<"E", "4">>]
NoteDs4 == [NoteC4 EXCEPT !.noteName = <<"D", "#", "4">>]
NoteGs9 == [NoteC4 EXCEPT !.noteName = <<"G", "#", "9">>]
NoteCbBelow == [NoteC4 EXCEPT !.noteName = <<"C", "b", "-", "1">>]
NoteCLowest == [NoteC4 EXCEPT !.noteName = <<"C", "-", "1">>]

Semitones == {-130, -64, 64, 130}

NextPitch ==
    \/ \E alias \in Aliases : loadMidi("song.mid", alias)
    \/ \E alias \in Aliases, n \in {NoteE4, NoteDs4, NoteGs9, NoteCbBelow, NoteCLowest, NoteG9} :
         addNotes(alias, 0, <<n>>) /\ TrackLen(alias, 0)' <= MaxTune
    \/ \E alias \in Aliases, semitones \in Semitones :
         transposeNotes(alias, 0, semitones, None, None)

SpecPitch == InitNotes /\ [][NextPitch]_vars

\* Every note of every loaded document has a pitch in 0..127.
PitchesInRange(registry) ==
    \A alias \in DOMAIN registry :
        \A t \in DOMAIN registry[alias].midi.tracks :
            \A i \in DOMAIN registry[alias].midi.tracks[t].notes :
                registry[alias].midi.tracks[t].notes[i].midi \in 0..127

\* transposeNotes returned: every note is still there with its pitch moved by the
\* semitones and brought back to the nearer end of 0..127.
SquashedFrom(before, after, semitones) ==
    /\ Len(after) = Len(before)
    /\ \A i \in DOMAIN before :
          after[i].midi = IF before[i].midi + semitones < 0 THEN 0
                          ELSE IF before[i].midi + semitones > 127 THEN 127
                          ELSE before[i].midi + semitones

Squashed ==
    /\ last'.err = "none"
    /\ SquashedFrom(NotesOf(loaded[last'.alias], 0), NotesOf(loaded'[last'.alias], 0),
                    last'.args[2][1])

\* An addNotes call on a loaded document's track names G#9 or Cb-1.
NamesOutside(o) ==
    /\ o.op = "addNotes" /\ o.err \notin {"NotFound", "TrackNotFound"}
    /\ \E i \in DOMAIN o.notes :
          o.notes[i].noteName \in {<<"G", "#", "9">>, <<"C", "b", "-", "1">>}

\* C16: after any sequence of addNotes and transposeNotes calls (any semitone
\* count, positive or negative) every note's pitch is an integer in 0..127:
\* transpose squashes out-of-range results to the boundary without dropping the
\* note or failing, and add rejects names that decode outside 0..127.
PitchStaysInRange ==
    [][/\ PitchesInRange(loaded')
       /\ (last'.op = "transposeNotes" /\ last'.alias \in DOMAIN loaded) => Squashed
       /\ NamesOutside(last') => (last'.err = "InvalidNote" /\ loaded' = loaded)]_vars

\* Transposing up by 64 has just brought a note added as E4 to 127 and kept the
\* other notes of the track.
PitchStaysInRangeWitness ==
    /\ last.op = "transposeNotes" /\ last.err = "none" /\ last.args[2] = <<64>>
    /\ "a" \in DOMAIN loaded
    /\ Len(NotesOf(loaded["a"], 0)) = 2
    /\ \E i \in 1..2 : NotesOf(loaded["a"], 0)[i].midi = 127
    /\ \E i \in 1..2 : NotesOf(loaded["a"], 0)[i].midi = 63 + 64

\* ── Claims about quantizeNotes (SpecNotes) ──────────────────────────────────

\* The note's onset is inside the measure range of the call.
Within(midi, note, measureStart, measureEnd) ==
    /\ IsSome(measureStart) => note.ticks >= measureToTicks(midi, Val(measureStart)).start
    /\ IsSome(measureEnd) => note.ticks < measureToTicks(midi, Val(measureEnd)).end

\* line is the multiple of grid nearest to ticks, the larger one of two equally near.
NearestLine(line, ticks, grid) ==
    /\ line % grid = 0
    /\ 2 * line <= 2 * ticks + grid
    /\ 2 * ticks + grid < 2 * line + 2 * grid

\* after is before with the onsets of the notes in the range moved to the grid and
\* nothing else changed.
SnappedFrom(midi, before, after, grid, measureStart, measureEnd) ==
    /\ Len(after) = Len(before)
    /\ \A i \in DOMAIN before :
          /\ after[i].durationTicks = before[i].durationTicks
          /\ after[i].midi = before[i].midi
          /\ after[i].velocity = before[i].velocity
          /\ IF Within(midi, before[i], measureStart, measureEnd)
             THEN NearestLine(after[i].ticks, before[i].ticks, grid)
             ELSE after[i].ticks = before[i].ticks

\* C17: quantizeNotes sets the startTick of every in-range note to the multiple of
\* gridTicks nearest its old startTick, the larger multiple on an exact tie, and
\* changes nothing else: durationTicks, pitch and velocity of every note and the
\* startTick of notes outside the range are unchanged, even when the new onset
\* falls outside the requested measure range.
QuantizeSnapsOnsetsOnly ==
    [][(last'.op = "quantizeNotes" /\ last'.err = "none") =>
          SnappedFrom(loaded[last'.alias].midi,
                      NotesOf(loaded[last'.alias], 0), NotesOf(loaded'[last'.alias], 0),
                      Ticks(gridTicksOf(loaded[last'.alias].midi,
                                        [n |-> last'.args[2][1], d |-> last'.args[2][2]])),
                      last'.args[3], last'.args[4])]_vars

\* Quantizing measure 1 to whole beats has just moved the note halfway between
\* beats 1 and 2 to beat 2 and the note of the file out of measure 1, to the start of
\* measure 2.
QuantizeSnapsOnsetsOnlyWitness ==
    /\ last.op = "quantizeNotes" /\ last.err = "none"
    /\ last.args = <<<<0>>, <<1, 1>>, Some(1), Some(1)>>
    /\ "a" \in DOMAIN loaded
    /\ Len(NotesOf(loaded["a"], 0)) = 2
    /\ \E i \in 1..2 : /\ NotesOf(loaded["a"], 0)[i].midi = 69
                       /\ NotesOf(loaded["a"], 0)[i].ticks = Ticks(480)
                       /\ NotesOf(loaded["a"], 0)[i].durationTicks = Ticks(240)
    /\ \E i \in 1..2 : /\ NotesOf(loaded["a"], 0)[i].midi = 110
                       /\ NotesOf(loaded["a"], 0)[i].ticks = Ticks(1440)

\* ── Short notes (SpecTicks) ─────────────────────────────────────────────────
\* Notes of a thousandth of a beat and of half a beat are added to the tune, in 3/4
\* and in 6/8, and quantized.

\* B3 on beat 2 of measure 1, a thousandth of a beat long.
NoteBrief == [measure |-> 1, beat |-> [n |-> 2, d |-> 1], noteName |-> <<"B", "3">>,
              velocity |-> None, durationBeats |-> [n |-> 1, d |-> 1000]]

NextTicks ==
    \/ \E alias \in Aliases : loadMidi("song.mid", alias)
    \/ \E alias \in Aliases, n \in {NoteBrief, NoteHalfway} :
         addNotes(alias, 0, <<n>>) /\ TrackLen(alias, 0)' <= MaxTune
    \/ \E alias \in Aliases, gridBeats \in Grids, range \in Ranges :
         quantizeNotes(alias, 0, gridBeats, range[1], range[2])
    \/ \E alias \in Aliases : setTimeSignature(alias, 6, 8, 0)

SpecTicks == InitNotes /\ [][NextTicks]_vars

\* The model's tick values are whole numbers of ticks when they are multiples of
\* TickScale.
WholeTicks(x) == x % TickScale = 0

\* C19: after any sequence of addNotes and quantizeNotes calls with inputs the
\* dispatch layer admits (measure >= 1, beat >= 1, durationBeats > 0, any positive
\* integer time-signature denominator) every stored note has an integer startTick
\* >= 0 and an integer durationTicks >= 1.
StoredTicksArePositiveIntegers ==
    \A alias \in DOMAIN loaded :
        \A t \in DOMAIN loaded[alias].midi.tracks :
            \A i \in DOMAIN loaded[alias].midi.tracks[t].notes :
                /\ WholeTicks(loaded[alias].midi.tracks[t].notes[i].ticks)
                /\ loaded[alias].midi.tracks[t].notes[i].ticks >= 0
                /\ WholeTicks(loaded[alias].midi.tracks[t].notes[i].durationTicks)
                /\ loaded[alias].midi.tracks[t].notes[i].durationTicks >= Ticks(1)

\* ── Listing by measure (SpecMeasures) ───────────────────────────────────────
\* A document is created in 4/4 at 120 bpm, given a track and notes, and listed by
\* measure.

OnBeat(beat, noteName) ==
    [measure |-> 1, beat |-> [n |-> beat, d |-> 1], noteName |-> noteName,
     velocity |-> Some(90), durationBeats |-> One]

\* C4, E4, G4 and C5 on the four beats of measure 1.
FourBeats ==
    <<OnBeat(1, <<"C", "4">>), OnBeat(2, <<"E", "4">>), OnBeat(3, <<"G", "4">>),
      OnBeat(4, <<"C", "5">>)>>

\* D4 on beat 4 of measure 1, two beats long: it sounds on into measure 2.
NoteTied == [OnBeat(4, <<"D", "4">>) EXCEPT !.durationBeats = [n |-> 2, d |-> 1]]

\* B3 on beat 1 of measure 2, a thousandth of a beat long.
NoteBriefLater == [NoteBrief EXCEPT !.measure = 2, !.beat = One]

NextMeasures ==
    \/ \E alias \in Aliases : createMidi(alias, None, None, None, Null)
    \/ \E alias \in Aliases : addTrack(alias, <<"Piano">>, None)
    \/ \E alias \in Aliases,
          notes \in {FourBeats, <<NoteTied>>, <<NoteBriefLater>>, <<FourBeats[2]>>} :
         addNotes(alias, 0, notes) /\ TrackLen(alias, 0)' <= MaxChord
    \/ \E alias \in Aliases, endMeasure \in {1, MaxMeasure}, trackIndex \in {None, Some(0)} :
         get_measures(alias, 1, endMeasure, trackIndex)

SpecMeasures == Init /\ [][NextMeasures]_vars

\* The notes of the tracks a call with this track argument scans, as <<track, i>>.
Selected(midi, trackIndex) ==
    {p \in UNION {{<<t, i>> : i \in DOMAIN midi.tracks[t].notes} : t \in DOMAIN midi.tracks} :
        IsSome(trackIndex) => p[1] = Val(trackIndex) + 1}

StartsIn(midi, p, m) ==
    /\ midi.tracks[p[1]].notes[p[2]].ticks >= measureToTicks(midi, m).start
    /\ midi.tracks[p[1]].notes[p[2]].ticks < measureToTicks(midi, m).end

\* The listed measure holds as many notes of each pitch as start in it.
HoldsItsNotes(midi, trackIndex, listedMeasure) ==
    \A pitch \in 0..127 :
        Cardinality({j \in DOMAIN listedMeasure.notes : listedMeasure.notes[j].midi = pitch})
        = Cardinality({p \in Selected(midi, trackIndex) :
                          /\ midi.tracks[p[1]].notes[p[2]].midi = pitch
                          /\ StartsIn(midi, p, listedMeasure.measure)})

\* total is the least number of measures whose ends reach lastTick.
LeastCover(midi, total, lastTick) ==
    IF lastTick = 0 THEN total = 0
    ELSE /\ total >= 1
         /\ measureToTicks(midi, total).end >= lastTick
         /\ total > 1 => measureToTicks(midi, total - 1).end < lastTick

\* The notes are four notes of one beat on the beats of measure 1 in 4/4.
IsFourBeats(notes) ==
    /\ Len(notes) = 4
    /\ \A i \in DOMAIN notes :
          notes[i].ticks = Ticks(480 * (i - 1)) /\ notes[i].durationTicks = Ticks(480)

\* A call getMeasures(1, n) with n not below the number of measures has returned.
ListedAll(o) ==
    /\ o.op = "getMeasures" /\ o.err = "none"
    /\ o.args[1] = <<1>> /\ o.args[2][1] >= o.ret[3]

\* C18: getMeasures(1, totalMeasures) lists every note of the selected tracks
\* exactly once, under the single measure whose tick interval [start, end) contains
\* the note's startTick, and totalMeasures is the least number of measures whose
\* walked boundaries cover the latest note end (0 when there are no notes); four
\* one-beat notes on beats 1..4 of measure 1 in 4/4 give totalMeasures = 1 and all
\* four in measure 1 ordered by beat.
MeasuresListEachNoteOnce ==
    ListedAll(last) =>
        /\ LeastCover(loaded[last.alias].midi, last.ret[3],
                      lastTickOf(loaded[last.alias].midi))
        /\ \A k \in DOMAIN last.out :
              HoldsItsNotes(loaded[last.alias].midi, last.args[3], last.out[k])
        /\ \A p \in Selected(loaded[last.alias].midi, last.args[3]) :
              \E k \in DOMAIN last.out :
                  StartsIn(loaded[last.alias].midi, p, last.out[k].measure)
        /\ (HasTrack(loaded[last.alias].midi, 0)
            /\ IsFourBeats(loaded[last.alias].midi.tracks[1].notes))
              => /\ last.ret[3] = 1
                 /\ Len(last.out[1].notes) = 4
                 /\ \A i \in 1..4 : last.out[1].notes[i].beat = 100 * i

\* ── Edits during a save (SpecRace) ──────────────────────────────────────────
\* The server waits for no call to end before it starts the next: while saveMidi is
\* suspended in writeFile, set_tempo and add_track run on the entry saveMidi holds.
\* Calls that replace or remove the entry wait for the save.

NextRace ==
    \/ \E filePath \in RelPaths, alias \in Aliases :
         ~Busy(alias) /\ loadMidi(filePath, alias)
    \/ \E alias \in Aliases, outputPath \in {Null, "out.mid"} :
         ~Busy(alias) /\ saveMidi(alias, outputPath)
    \/ \E p \in pending : saveMidiResume(p)
    \/ \E p \in pending : saveMidiWriteFails(p)
    \/ \E alias \in Aliases, bpm \in {90, 150} : setTempo(alias, bpm, 0)
    \/ \E alias \in Aliases : addTrack(alias, <<"Pad">>, None)

SpecRace == Init /\ [][NextRace]_vars

\* C20: under any interleaving of saveMidi's write suspension with other calls on
\* the same alias, a dirty flag of false implies the in-memory document equals the
\* content last written or loaded: an edit that completes while a save of the alias
\* awaits its write is not marked clean when the save resumes.
CleanMeansSaved ==
    \A alias \in DOMAIN loaded :
        ~loaded[alias].dirty =>
            /\ loaded[alias].filePath \in DOMAIN disk
            /\ loaded[alias].midi = disk[loaded[alias].filePath]


====
